---- MODULE Spec2Model ----
(***************************************************************************)
(* A model of instnoth (src/src/main.rs): the script parser                *)
(* (InstnothParser), the dependency resolver (DependencyManager) and the   *)
(* command interpreter (Simulator).  Each of the three is a state machine  *)
(* of its own, with its own specification: SpecResolve, SpecSim and        *)
(* SpecParse.  The variables of the two machines a specification does not  *)
(* run keep their initial values.                                          *)
(***************************************************************************)
EXTENDS Integers, Sequences, FiniteSets, TLC

VARIABLES
    \* ---- DependencyManager::get_install_order / visit_package ----
    fs,          \* the script files on disk: path -> the Package its text parses to
    packages,    \* the argument of get_install_order: the root Packages
    root_i,      \* position of `for pkg in packages`
    stack,       \* the recursion of visit_package: frames [pkg, di]
    order,       \* local `order`
    visited,     \* local `visited`
    in_stack,    \* local `in_stack`
    ret,         \* what get_install_order returned (NoRet while it runs)
    calls,       \* log of the visit_package invocations, in call order
    \* ---- Simulator ----
    quick_mode,  \* Simulator.quick_mode
    verbose,     \* Simulator.verbose
    progress,    \* Simulator.progress
    slept,       \* total milliseconds handed to thread::sleep
    panicked,    \* the thread panicked (the process is gone)
    ncmds,       \* commands handed to execute_command so far
    cur,         \* the command execute_command was last called with
    effect,      \* what the last command reported
    dl,          \* the loop of simulate_download: [size, downloaded] or NoDl
    facts,       \* what RandomSystemInfo answers in this run
    effect_twin, \* what a second run reports for the same command, the
                 \* program, the mode and the facts being the same
    \* ---- InstnothParser::parse ----
    script,      \* what the script file was written to say
    content,     \* InstnothParser.content, as its lines
    line_i,      \* local `i`
    package,     \* local `package`
    parsed,      \* what parse returned (NoRet while it runs)
    \* ---- main ----
    pc,          \* where main stands ("idle": main is not run)
    main_args,   \* Args: skip_deps, show_deps (quick and verbose are the
                 \* Simulator's quick_mode and verbose)
    files,       \* args.file: the root paths
    file_i,      \* position of `for file_path in &files`
    base_path,   \* local `base_path`, then DependencyManager.base_path
    place,       \* the directory each script file lies in
    programs,    \* the phases of each script file (Package.phases)
    install_order, \* local `install_order`
    pkg_i,       \* position of `for pkg in &install_order`
    phase_i,     \* position of `for phase in &package.phases` (Simulator::run)
    cmd_i,       \* position of `for cmd in &phase.commands` (run_phase)
    installed_count, \* local `installed_count`
    log,         \* the effects produced so far, in order
    shown        \* the lines show_dependency_tree printed so far, in order

resolveVars == <<fs, packages, root_i, stack, order, visited, in_stack, ret, calls>>
simVars == <<quick_mode, verbose, progress, slept, panicked, ncmds, cur, effect, dl,
             facts, effect_twin>>
parseVars == <<script, content, line_i, package, parsed>>
mainVars == <<pc, main_args, files, file_i, base_path, place, programs, install_order,
              pkg_i, phase_i, cmd_i, installed_count, log, shown>>
vars == <<resolveVars, simVars, parseVars, mainVars>>

NoRet == [tag |-> "None"]
NoDl == [size |-> 0, downloaded |-> 0, twin |-> 0, active |-> FALSE]
NoCmd == [kind |-> "None"]
NoEffect == [kind |-> "None"]

Last(s) == s[Len(s)]
Front(s) == SubSeq(s, 1, Len(s) - 1)
Max(a, b) == IF a >= b THEN a ELSE b
Min(a, b) == IF a <= b THEN a ELSE b

(***************************************************************************)
(*                       The dependency resolver                           *)
(***************************************************************************)

\* Bounds of the resolver's inputs.
NFiles == 3      \* script files that exist and parse
MaxDeps == 2     \* longest `depends:` list
NNames == 3      \* distinct program names
MaxRoots == 2    \* root files given on the command line
MaxEdges == 3    \* dependency references in all files together

Files == 1 .. NFiles
\* A dependency reference: the path of a file, or NoFile, a path at which no
\* readable and parsable script is found.
NoFile == 0
Refs == {NoFile} \cup Files
Names == 1 .. NNames

SeqsUpTo(S, n) == UNION {[1 .. k -> S] : k \in 0 .. n}

\* A Package as the resolver reads it (name, depends, file_path).
Package(n, d, f) == [name |-> n, depends |-> d, file_path |-> f]

\* Names are only ever compared for equality, so the files' names are drawn
\* up to renaming: file 1 is named 1, and each later file takes a name already
\* used or the next unused one.
CanonicalNames(nm) ==
    \A f \in Files : nm[f] <= 1 + (IF f = 1 THEN 0 ELSE
        CHOOSE m \in Names : (\E g \in 1 .. f - 1 : nm[g] = m)
                             /\ \A g \in 1 .. f - 1 : nm[g] <= m)

\* The `depends:` lists of files 1 .. n, with at most e references in all.
RECURSIVE DependsOf(_, _)
DependsOf(n, e) ==
    IF n = 0 THEN {<<>>}
    ELSE UNION {{Append(t, d) : t \in DependsOf(n - 1, e - Len(d))} :
                    d \in SeqsUpTo(Refs, Min(MaxDeps, e))}

FileSystems ==
    {[f \in Files |-> Package(nm[f], dp[f], f)] :
        nm \in {n \in [Files -> Names] : CanonicalNames(n)},
        dp \in DependsOf(NFiles, MaxEdges)}

\* The roots are distinct files; up to renaming of the files they are the
\* files 1 .. k, in this order.
RootLists == {[i \in 1 .. k |-> i] : k \in 1 .. MaxRoots}

\* A dependency reference is the path of a file, relative to the directory
\* the file lies in (a positive number) or absolute (the negative of it), or
\* NoFile.
IsAbsolute(dep_path) == dep_path < 0

\* DependencyManager::resolve_path: an absolute reference as it is, any other
\* joined to base_path; the joined path is the file's when the file lies in
\* base_path, and the path of no file otherwise.
resolve_path(dep_path) ==
    IF IsAbsolute(dep_path) THEN 0 - dep_path
    ELSE IF dep_path \in DOMAIN place /\ place[dep_path] = base_path THEN dep_path
    ELSE NoFile

\* DependencyManager::load_package: Ok(Package) for a file that is read and
\* parsed, Err for any other path.
load_package(path) ==
    IF path \in DOMAIN fs
    THEN [ok |-> TRUE, pkg |-> fs[path]]
    ELSE [ok |-> FALSE]

Ok(o) == [tag |-> "Ok", order |-> o]
Err(n) == [tag |-> "Err", name |-> n]

\* The two early returns of visit_package.
VisitCheck_NoCycleError(pkg_id, vis, stk) ==
    IF pkg_id \in stk \/ pkg_id \in vis THEN "skip" ELSE "descend"

VisitCheck_NoVisited(pkg_id, vis, stk) ==
    IF pkg_id \in stk THEN "cycle" ELSE "descend"

VisitCheck(pkg_id, vis, stk) ==
    IF pkg_id \in stk THEN "cycle"
    ELSE IF pkg_id \in vis THEN "skip"
    ELSE "descend"

\* Where a distinct file that declares the same name as pkg stands when
\* visit_package(pkg) is entered: on the recursion path, in the output, or
\* nowhere.
Twin(pkg) ==
    IF \E i \in DOMAIN stack : stack[i].pkg.name = pkg.name
                               /\ stack[i].pkg.file_path # pkg.file_path
    THEN "on_path"
    ELSE IF \E i \in DOMAIN order : order[i].name = pkg.name
                                    /\ order[i].file_path # pkg.file_path
    THEN "scheduled"
    ELSE "none"

\* A call visit_package(pkg) made with the recursion at `below` (the caller's
\* frames): the entry checks, and the new frame when the checks pass.  An Err
\* unwinds through every `?` up to get_install_order, which returns it; the
\* locals keep the values they had at that moment.
Visit(pkg, below) ==
    LET c == VisitCheck(pkg.name, visited, in_stack) IN
    /\ calls' = Append(calls, [file |-> pkg.file_path, name |-> pkg.name,
                               check |-> c, twin |-> Twin(pkg),
                               depth |-> Len(stack)])
    /\ CASE c = "cycle" ->
              /\ ret' = Err(pkg.name)
              /\ UNCHANGED <<stack, in_stack>>
         [] c = "skip" ->
              /\ stack' = below
              /\ UNCHANGED <<ret, in_stack>>
         [] OTHER ->
              /\ in_stack' = in_stack \cup {pkg.name}
              /\ stack' = Append(below, [pkg |-> pkg, di |-> 1])
              /\ UNCHANGED ret
    /\ UNCHANGED <<order, visited>>

\* get_install_order runs: by itself, or where main calls it.
Running == ret = NoRet /\ pc \in {"idle", "resolve"}

\* get_install_order: `for pkg in packages { self.visit_package(pkg, ...)?; }`
VisitRoot ==
    /\ Running
    /\ stack = <<>>
    /\ root_i <= Len(packages)
    /\ root_i' = root_i + 1
    /\ Visit(packages[root_i], <<>>)
    /\ UNCHANGED <<fs, packages>>
    /\ UNCHANGED <<simVars, parseVars, mainVars>>

DepVisit_LastFirst ==
    /\ Running
    /\ stack # <<>>
    /\ LET top == Last(stack)
           at == Len(top.pkg.depends) + 1 - top.di
       IN
       /\ top.di <= Len(top.pkg.depends)
       /\ load_package(resolve_path(top.pkg.depends[at])).ok
       /\ Visit(load_package(resolve_path(top.pkg.depends[at])).pkg,
                Append(Front(stack), [top EXCEPT !.di = @ + 1]))
    /\ UNCHANGED <<fs, packages, root_i>>
    /\ UNCHANGED <<simVars, parseVars, mainVars>>

\* visit_package: the next `dep_path` of the top frame loads, and is visited.
DepVisit ==
    /\ Running
    /\ stack # <<>>
    /\ LET top == Last(stack) IN
       /\ top.di <= Len(top.pkg.depends)
       /\ load_package(resolve_path(top.pkg.depends[top.di])).ok
       /\ Visit(load_package(resolve_path(top.pkg.depends[top.di])).pkg,
                Append(Front(stack), [top EXCEPT !.di = @ + 1]))
    /\ UNCHANGED <<fs, packages, root_i>>
    /\ UNCHANGED <<simVars, parseVars, mainVars>>

DepSkip_Fatal ==
    /\ Running
    /\ stack # <<>>
    /\ LET top == Last(stack) IN
       /\ top.di <= Len(top.pkg.depends)
       /\ ~load_package(resolve_path(top.pkg.depends[top.di])).ok
       /\ ret' = Err(top.pkg.name)
    /\ UNCHANGED <<fs, packages, root_i, stack, order, visited, in_stack, calls>>
    /\ UNCHANGED <<simVars, parseVars, mainVars>>

\* visit_package: the next `dep_path` of the top frame does not load; the
\* warning is printed and the loop goes on.
DepSkip ==
    /\ Running
    /\ stack # <<>>
    /\ LET top == Last(stack) IN
       /\ top.di <= Len(top.pkg.depends)
       /\ ~load_package(resolve_path(top.pkg.depends[top.di])).ok
       /\ stack' = Append(Front(stack), [top EXCEPT !.di = @ + 1])
    /\ UNCHANGED <<fs, packages, root_i, order, visited, in_stack, ret, calls>>
    /\ UNCHANGED <<simVars, parseVars, mainVars>>

VisitReturn_NoPop ==
    /\ Running
    /\ stack # <<>>
    /\ LET top == Last(stack) IN
       /\ top.di > Len(top.pkg.depends)
       /\ visited' = visited \cup {top.pkg.name}
       /\ order' = Append(order, top.pkg)
       /\ stack' = Front(stack)
    /\ UNCHANGED <<fs, packages, root_i, ret, calls, in_stack>>
    /\ UNCHANGED <<simVars, parseVars, mainVars>>

\* visit_package: the loop over depends is over.
VisitReturn ==
    /\ Running
    /\ stack # <<>>
    /\ LET top == Last(stack) IN
       /\ top.di > Len(top.pkg.depends)
       /\ in_stack' = in_stack \ {top.pkg.name}
       /\ visited' = visited \cup {top.pkg.name}
       /\ order' = Append(order, top.pkg)
       /\ stack' = Front(stack)
    /\ UNCHANGED <<fs, packages, root_i, ret, calls>>
    /\ UNCHANGED <<simVars, parseVars, mainVars>>

OrderReturn_Never ==
    /\ Running
    /\ stack = <<>>
    /\ root_i > Len(packages)
    /\ UNCHANGED vars

\* get_install_order: `Ok(order)`
OrderReturn ==
    /\ Running
    /\ stack = <<>>
    /\ root_i > Len(packages)
    /\ ret' = Ok(order)
    /\ UNCHANGED <<fs, packages, root_i, stack, order, visited, in_stack, calls>>
    /\ UNCHANGED <<simVars, parseVars, mainVars>>

SimIdle ==
    /\ quick_mode = FALSE
    /\ verbose = FALSE
    /\ progress = 0
    /\ slept = 0
    /\ panicked = FALSE
    /\ ncmds = 0
    /\ cur = NoCmd
    /\ effect = NoEffect
    /\ dl = NoDl
    /\ facts = 1
    /\ effect_twin = NoEffect

ParseIdle ==
    /\ script = [header |-> <<>>, deps |-> [given |-> FALSE], phase |-> "quoted",
                 body |-> <<>>, tail |-> <<>>]
    /\ content = <<>>
    /\ line_i = 1
    /\ package = [name |-> <<>>]
    /\ parsed = NoRet

MainIdle ==
    /\ pc = "idle"
    /\ main_args = [skip_deps |-> FALSE, show_deps |-> FALSE]
    /\ files = <<>>
    /\ file_i = 1
    /\ base_path = 1
    /\ place = [f \in Files |-> 1]
    /\ programs = [f \in Files |-> <<>>]
    /\ install_order = <<>>
    /\ pkg_i = 1
    /\ phase_i = 1
    /\ cmd_i = 1
    /\ installed_count = 0
    /\ log = <<>>
    /\ shown = <<>>

ResolveIdle ==
    /\ fs = <<>>
    /\ packages = <<>>
    /\ root_i = 1
    /\ stack = <<>>
    /\ order = <<>>
    /\ visited = {}
    /\ in_stack = {}
    /\ ret = NoRet
    /\ calls = <<>>

\* The files on disk and the roots main parsed from them, at the call of
\* get_install_order.
ResolveInit ==
    /\ fs \in FileSystems
    /\ \E r \in RootLists : packages = [i \in DOMAIN r |-> fs[r[i]]]
    /\ root_i = 1
    /\ stack = <<>>
    /\ order = <<>>
    /\ visited = {}
    /\ in_stack = {}
    /\ ret = NoRet
    /\ calls = <<>>
    /\ SimIdle
    /\ ParseIdle
    /\ MainIdle

ResolveNext ==
    \/ VisitRoot
    \/ DepVisit
    \/ DepSkip
    \/ VisitReturn
    \/ OrderReturn

SpecResolve == ResolveInit /\ [][ResolveNext]_vars

\* The resolver is one sequential call: a step that can be taken is taken.
SpecResolveFair == SpecResolve /\ WF_vars(ResolveNext)

(***************************************************************************)
(*                 Properties of the dependency resolver                   *)
(***************************************************************************)

\* The files a file's `depends:` list names that load.
DepFiles(f) == {fs[f].depends[k] : k \in DOMAIN fs[f].depends} \cap Files

RECURSIVE Closure(_)
Closure(S) ==
    LET T == S \cup UNION {DepFiles(f) : f \in S}
    IN  IF T = S THEN S ELSE Closure(T)

RootFiles == {packages[i].file_path : i \in DOMAIN packages}
Reachable == Closure(RootFiles)
OnCycle(f) == f \in Closure(DepFiles(f))
CycleReachable == \E f \in Reachable : OnCycle(f)
NamesDistinct == \A f, g \in Reachable : f # g => fs[f].name # fs[g].name

LoadableDeps(pkg) == SelectSeq(pkg.depends, LAMBDA r : load_package(r).ok)

\* The files visit_package was called with from inside call k, in call order.
ChildCalls(k) ==
    LET d == calls[k].depth
        later == {j \in k + 1 .. Len(calls) : calls[j].depth <= d}
        stop == IF later = {} THEN Len(calls) + 1
                ELSE CHOOSE j \in later : \A i \in later : j <= i
        inner == SubSeq(calls, k + 1, stop - 1)
        direct == SelectSeq(inner, LAMBDA c : c.depth = d + 1)
    IN  [i \in DOMAIN direct |-> direct[i].file]

\* The file of the first visit_package call for name n.
FirstVisited(n) ==
    LET ks == {k \in DOMAIN calls : calls[k].name = n}
    IN  calls[CHOOSE k \in ks : \A i \in ks : k <= i].file

\* C1: in every order get_install_order returns, each dependency reference of
\* a program P that loads has a program of the dependency's declared name at
\* a strictly smaller index than P.
C1_DependenciesFirst ==
    ret.tag = "Ok" =>
        \A i \in DOMAIN ret.order : \A k \in DOMAIN ret.order[i].depends :
            LET l == load_package(ret.order[i].depends[k])
            IN  l.ok => \E j \in 1 .. i - 1 : ret.order[j].name = l.pkg.name

\* C1 witness: an order is returned in which a program stands behind the
\* program loaded from one of its dependency references.
C1_Witness ==
    /\ ret.tag = "Ok"
    /\ \E i \in DOMAIN ret.order : \E k \in DOMAIN ret.order[i].depends :
          /\ load_package(ret.order[i].depends[k]).ok
          /\ \E j \in 1 .. i - 1 :
                ret.order[j].file_path = ret.order[i].depends[k]

\* C2, as stated: whenever a cycle of loadable file references is reachable
\* from the roots, get_install_order returns a CycleError that names a program
\* on the recursion path, and no order.
C2_Original ==
    (ret # NoRet /\ CycleReachable) =>
        /\ ret.tag = "Err"
        /\ ret.name \in in_stack

\* C2, amended: the same, when no two distinct files reachable from the roots
\* declare the same program name; the program named is then one of a cycle.
C2_CycleIsAnError ==
    (ret # NoRet /\ CycleReachable /\ NamesDistinct) =>
        /\ ret.tag = "Err"
        /\ ret.name \in in_stack
        /\ \E f \in Reachable : OnCycle(f) /\ fs[f].name = ret.name

\* C2 witness: a CycleError is returned for a cycle that is entered from a
\* root outside it, all names being distinct.
C2_Witness ==
    /\ ret.tag = "Err"
    /\ CycleReachable
    /\ NamesDistinct
    /\ \E f \in RootFiles : ~OnCycle(f)

\* C3: in a returned order each program name occurs at most once, and the
\* entry of a name is the file of the first visit for that name.
C3_OneEntryPerName ==
    ret.tag = "Ok" =>
        /\ \A i, j \in DOMAIN ret.order :
              ret.order[i].name = ret.order[j].name => i = j
        /\ \A i \in DOMAIN ret.order :
              ret.order[i].file_path = FirstVisited(ret.order[i].name)

\* C3 witness: an order is returned after two distinct files of one name
\* were visited.
C3_Witness ==
    /\ ret.tag = "Ok"
    /\ \E k, l \in DOMAIN calls :
          /\ k < l
          /\ calls[k].name = calls[l].name
          /\ calls[k].file # calls[l].file

\* C4, as stated: a file of the same name as a distinct file visited earlier
\* is skipped without an error, be the earlier one scheduled or on the path.
C4_Original ==
    \A k \in DOMAIN calls :
        calls[k].twin # "none" =>
            /\ calls[k].check = "skip"
            /\ k = Len(calls) => ret.tag # "Err"

\* C4, amended: such a file is skipped, without an error and without a second
\* entry, when the earlier one is fully scheduled; when the earlier one is on
\* the current path, the resolution fails with a CycleError naming it.
C4_TwinSkippedOrCycle ==
    \A k \in DOMAIN calls :
        /\ calls[k].twin = "scheduled" =>
              /\ calls[k].check = "skip"
              /\ k = Len(calls) => ret.tag # "Err"
              /\ \A i \in DOMAIN order : order[i].file_path # calls[k].file
              /\ Cardinality({i \in DOMAIN order : order[i].name = calls[k].name}) = 1
        /\ calls[k].twin = "on_path" =>
              /\ calls[k].check = "cycle"
              /\ k = Len(calls)
              /\ ret = Err(calls[k].name)

\* C4 witness: both cases have happened, one in a resolution that went on to
\* return an order, one ending it.
C4_Witness ==
    \/ /\ ret.tag = "Ok"
       /\ \E k \in DOMAIN calls : calls[k].twin = "scheduled"
       /\ Len(packages) = 1
    \/ /\ ret.tag = "Err"
       /\ \E k \in DOMAIN calls : calls[k].twin = "scheduled"
       /\ Last(calls).twin = "on_path"

\* C5: a dependency reference that does not load never fails the resolution:
\* the only failure is the cycle check, and in a returned order every program
\* that was entered is present, its visits having gone to exactly its loading
\* references, in declared order.
C5_LoadFailureIsSkipped ==
    /\ ret.tag = "Err" => calls # <<>> /\ Last(calls).check = "cycle"
    /\ ret.tag = "Ok" =>
          \A k \in DOMAIN calls :
              calls[k].check = "descend" =>
                  /\ ChildCalls(k) = LoadableDeps(fs[calls[k].file])
                  /\ \E i \in DOMAIN ret.order :
                        ret.order[i].file_path = calls[k].file

\* C5 witness: an order is returned that holds a program whose first
\* reference does not load and whose second one does.
C5_Witness ==
    /\ ret.tag = "Ok"
    /\ \E i \in DOMAIN ret.order :
          LET d == ret.order[i].depends
          IN  /\ Len(d) = 2
              /\ ~load_package(d[1]).ok
              /\ load_package(d[2]).ok
              /\ \E j \in 1 .. i - 1 : ret.order[j].file_path = d[2]

\* The calls visit_package made directly from inside call k, as positions of
\* the log.
DirectCalls(k) ==
    LET d == calls[k].depth
        later == {j \in k + 1 .. Len(calls) : calls[j].depth <= d}
        stop == IF later = {} THEN Len(calls) + 1
                ELSE CHOOSE j \in later : \A i \in later : j <= i
    IN  {j \in k + 1 .. stop - 1 : calls[j].depth = d + 1}

IsPrefix(s, t) == Len(s) <= Len(t) /\ s = SubSeq(t, 1, Len(s))

\* The place of file f in the order.
Place(o, f) == CHOOSE i \in DOMAIN o : o[i].file_path = f

\* C19: the roots are visited in the order given, and the references of a
\* program are visited in declared order (those that load; the others are
\* passed over): of two references of one program that are both entered, not
\* being scheduled yet when their turn comes, the one declared first stands
\* first in the returned order.
C19_DeclaredOrder ==
    /\ LET top == SelectSeq(calls, LAMBDA c : c.depth = 0)
       IN  IsPrefix([i \in DOMAIN top |-> top[i].file],
                    [i \in DOMAIN packages |-> packages[i].file_path])
    /\ \A k \in DOMAIN calls :
          calls[k].check = "descend" =>
              IsPrefix(ChildCalls(k), LoadableDeps(fs[calls[k].file]))
    /\ ret.tag = "Ok" =>
          \A k \in DOMAIN calls : \A i, j \in DirectCalls(k) :
              (i < j /\ calls[i].check = "descend" /\ calls[j].check = "descend")
                  => Place(ret.order, calls[i].file) < Place(ret.order, calls[j].file)

\* C19 witness: an order is returned in which two references of one program,
\* both entered, stand in declared order, the first of them being the file
\* with the greater number.
C19_Witness ==
    /\ ret.tag = "Ok"
    /\ \E k \in DOMAIN calls : \E i, j \in DirectCalls(k) :
          /\ i < j
          /\ calls[i].check = "descend"
          /\ calls[j].check = "descend"
          /\ calls[i].file > calls[j].file
          /\ Place(ret.order, calls[i].file) < Place(ret.order, calls[j].file)

\* The names of the programs on the recursion path, and of those in the
\* output.
PathNames == {stack[i].pkg.name : i \in DOMAIN stack}
OrderNames == {order[i].name : i \in DOMAIN order}

\* C26: throughout a resolution the on-path set and the fully-scheduled set
\* are disjoint, the on-path set is the set of the names of the programs on
\* the recursion path, the fully-scheduled set is the set of the names of the
\* programs in the output, and the on-path set is empty when an order is
\* returned.
C26_SetsFollowTheRecursion ==
    /\ in_stack \cap visited = {}
    /\ in_stack = PathNames
    /\ visited = OrderNames
    /\ ret.tag = "Ok" => in_stack = {}

\* C26 witness: the recursion is two programs deep below a root, after a
\* program was put in the output.
C26_Witness ==
    /\ ret = NoRet
    /\ Len(stack) = 2
    /\ Cardinality(in_stack) = 2
    /\ visited # {}

\* The distinct names the programs of the files declare.
AllNames == {fs[f].name : f \in DOMAIN fs}

\* C27: get_install_order terminates on every file set, self-referencing and
\* mutually referencing files included, with an order or with a cycle error,
\* and the recursion is never deeper than the number of distinct program
\* names.
C27_Terminates ==
    /\ <>(ret.tag \in {"Ok", "Err"})
    /\ [](Len(stack) <= Cardinality(AllNames))

\* C27 witness: the resolver has returned where two reachable files name each
\* other.
C27_Witness ==
    /\ ret # NoRet
    /\ \E f, g \in Reachable : f # g /\ g \in DepFiles(f) /\ f \in DepFiles(g)

(***************************************************************************)
(*                        The command interpreter                          *)
(***************************************************************************)

\* Bounds of the interpreter's inputs.
MaxCmds == 2       \* commands handed to execute_command in one run
MaxSize == 64      \* largest size of a download that is run

\* The values the fields of the commands are drawn from.
DelayValues == {0, 100, 250}
ProgressValues == {0, 50, 100, 103, 104, 200, 255}
SizeValues == {0, 7, MaxSize}
DurationValues == {0, 19, 1000}
Components == {"cpu", "usb"}
PackageLists == {<<>>, <<"vim">>, <<"vim", "git">>}
Configs == {"dhcp", "static"}
\* rng.gen_range(10..50) and rng.gen_range(20..60) of simulate_download: the
\* two ends of each range.
ChunkDraws == {10, 49}
SleepDraws == {20, 59}

\* enum Command.  A text field that no branch reads is left out; the packages
\* of InstallPackages are given as split_whitespace() splits them.
Commands ==
    {[kind |-> k] : k \in {"Message", "CreateDir", "Extract", "InstallDep",
        "Configure", "Cleanup", "Success", "Error", "Warning", "CopyFile",
        "Symlink", "SetPermission", "RunScript", "CheckDep", "WriteConfig",
        "DetectCpu", "DetectMemory", "DetectDisk", "DetectGpu",
        "DetectNetwork", "DetectOs", "DetectKernel", "DetectBios",
        "LoadKernelModule", "UnloadKernelModule", "UpdateInitramfs",
        "UpdateGrub", "MountPartition", "UnmountPartition",
        "FormatPartition", "CreatePartition", "SetHostname", "SetTimezone",
        "SetLocale", "CreateUser", "SetPassword", "EnableService",
        "DisableService", "StartService", "StopService",
        "InstallBootloader", "GenerateFstab", "CheckIntegrity",
        "VerifySignature", "CompileKernel", "UpdateSystem", "SyncTime",
        "BenchmarkCpu", "BenchmarkMemory", "BenchmarkDisk", "FirewallRule",
        "ScanHardware", "DetectDrivers", "InstallDriver"}}
    \cup {[kind |-> "Delay", ms |-> v] : v \in DelayValues}
    \cup {[kind |-> "Progress", pct |-> v] : v \in ProgressValues}
    \cup {[kind |-> "Download", size |-> v] : v \in SizeValues}
    \cup {[kind |-> "RunTest", duration |-> v] : v \in DurationValues}
    \cup {[kind |-> "TestHardware", component |-> v] : v \in Components}
    \cup {[kind |-> "InstallPackages", packages |-> v] : v \in PackageLists}
    \cup {[kind |-> "NetworkConfig", config |-> v] : v \in Configs}

\* The methods of Simulator, as the milliseconds each hands to thread::sleep.

simulate_operation(delay_ms, quick) ==
    IF ~quick THEN (delay_ms \div 80) * 80 ELSE 0

simulate_extraction(quick) == IF ~quick THEN 5 * 100 ELSE 0

simulate_dep_install(quick) == IF ~quick THEN 15 * 100 ELSE 0

simulate_script_execution(quick) == IF ~quick THEN 4 * 150 ELSE 0

detect_cpu(quick) == IF ~quick THEN 500 ELSE 0
detect_memory(quick) == IF ~quick THEN 400 ELSE 0
detect_disk(quick) == IF ~quick THEN 600 ELSE 0
detect_gpu(quick) == IF ~quick THEN 500 ELSE 0
detect_network(quick) == IF ~quick THEN 500 ELSE 0
detect_os(quick) == IF ~quick THEN 300 ELSE 0
detect_kernel(quick) == IF ~quick THEN 200 ELSE 0
detect_bios(quick) == IF ~quick THEN 400 ELSE 0

run_test_NoGuard(duration, quick) == 21 * (duration \div 20)

\* `for i in 0..=steps`: 21 sleeps of duration / 20 each.
run_test(duration, quick) ==
    IF ~quick THEN 21 * (duration \div 20) ELSE 0

\* Three tests for a known component, two for any other, 500 ms each.
test_hardware(component, quick) ==
    LET tests == IF component \in {"memory", "ram", "cpu", "disk", "storage", "gpu"}
                 THEN 3 ELSE 2
    IN  tests * run_test(500, quick)

benchmark_cpu(quick) == IF ~quick THEN 4 * 400 ELSE 0
benchmark_memory(quick) == IF ~quick THEN 4 * 300 ELSE 0
benchmark_disk(quick) == IF ~quick THEN 4 * 400 ELSE 0
load_kernel_module(quick) == IF ~quick THEN 300 ELSE 0
unload_kernel_module(quick) == IF ~quick THEN 200 ELSE 0
update_initramfs(quick) == IF ~quick THEN 4 * 400 ELSE 0
update_grub(quick) == IF ~quick THEN 300 + 4 * 150 ELSE 0

compile_kernel(quick) ==
    IF ~quick
    THEN 21 * (500 \div 20) + 21 * (2000 \div 20) + 21 * (1500 \div 20)
         + 21 * (800 \div 20) + 21 * (400 \div 20)
    ELSE 0

mount_partition(quick) == IF ~quick THEN 300 ELSE 0
unmount_partition(quick) == IF ~quick THEN 200 ELSE 0
format_partition(quick) == IF ~quick THEN 101 * 20 ELSE 0
create_partition(quick) == IF ~quick THEN 500 ELSE 0
generate_fstab(quick) == IF ~quick THEN 4 * 150 ELSE 0
create_user(quick) == IF ~quick THEN 300 ELSE 0
manage_service(quick) == IF ~quick THEN 200 ELSE 0
install_bootloader(quick) == IF ~quick THEN 4 * 400 ELSE 0
check_integrity(quick) == IF ~quick THEN 101 * 15 ELSE 0
verify_signature(quick) == IF ~quick THEN 400 ELSE 0

install_packages(pkg_list, quick) ==
    IF ~quick THEN Len(pkg_list) * (10 * 80) ELSE 0

update_system(quick) == IF ~quick THEN 5 * 500 ELSE 0
sync_time(quick) == IF ~quick THEN 500 ELSE 0

network_config(config, quick) ==
    IF ~quick
    THEN (IF config = "dhcp" THEN 800 ELSE 300) + 400
    ELSE 0

scan_hardware(quick) == IF ~quick THEN 5 * 300 ELSE 0
detect_drivers(quick) == IF ~quick THEN 6 * 150 ELSE 0
install_driver(quick) == IF ~quick THEN 15 * 100 ELSE 0

\* show_progress_bar.  `width - filled` is a subtraction of usize: below zero
\* it panics in a build with overflow checks, and wraps to 2^64 - (filled -
\* width) in one without, where "░".repeat of that many 3-byte characters
\* panics with a capacity overflow.  checks is the build's overflow-checks.
show_progress_bar(pct, checks) ==
    LET width == 30
        filled == (width * pct) \div 100
    IN  IF filled <= width
        THEN [panic |-> "no", filled |-> filled, empty |-> width - filled]
        ELSE IF checks
        THEN [panic |-> "attempt to subtract with overflow", filled |-> filled]
        ELSE [panic |-> "capacity overflow", filled |-> filled]

ExecProgress_BarFirst(pct, old, checks) ==
    LET bar == show_progress_bar(pct, checks)
    IN  [progress |-> IF bar.panic = "no" THEN pct ELSE old,
         panic |-> bar.panic # "no",
         effect |-> IF bar.panic = "no"
                    THEN [kind |-> "Progress", bar |-> bar, shown |-> pct]
                    ELSE [kind |-> "Progress", bar |-> bar]]

\* execute_command, Command::Progress: the assignment, then the bar.
ExecProgress(pct, old, checks) ==
    LET bar == show_progress_bar(pct, checks)
    IN  [progress |-> pct,
         panic |-> bar.panic # "no",
         effect |-> IF bar.panic = "no"
                    THEN [kind |-> "Progress", bar |-> bar, shown |-> pct]
                    ELSE [kind |-> "Progress", bar |-> bar]]

\* execute_command, every arm but Progress and Download: the milliseconds
\* slept.
SleepOf(cmd, quick) ==
    LET k == cmd.kind IN
    CASE k \in {"Message", "Success", "Error", "Warning"} -> 0
      [] k = "Delay" -> IF ~quick THEN cmd.ms ELSE 0
      [] k = "CreateDir" -> simulate_operation(200, quick)
      [] k = "Extract" -> simulate_extraction(quick)
      [] k = "InstallDep" -> simulate_dep_install(quick)
      [] k = "Configure" -> IF ~quick THEN 100 ELSE 0
      [] k = "Cleanup" -> simulate_operation(300, quick)
      [] k = "CopyFile" -> IF ~quick THEN 150 ELSE 0
      [] k = "Symlink" -> IF ~quick THEN 100 ELSE 0
      [] k = "SetPermission" -> IF ~quick THEN 50 ELSE 0
      [] k = "RunScript" -> simulate_script_execution(quick)
      [] k = "CheckDep" -> IF ~quick THEN 200 ELSE 0
      [] k = "WriteConfig" -> IF ~quick THEN 100 ELSE 0
      [] k = "DetectCpu" -> detect_cpu(quick)
      [] k = "DetectMemory" -> detect_memory(quick)
      [] k = "DetectDisk" -> detect_disk(quick)
      [] k = "DetectGpu" -> detect_gpu(quick)
      [] k = "DetectNetwork" -> detect_network(quick)
      [] k = "DetectOs" -> detect_os(quick)
      [] k = "DetectKernel" -> detect_kernel(quick)
      [] k = "DetectBios" -> detect_bios(quick)
      [] k = "RunTest" -> run_test(cmd.duration, quick)
      [] k = "LoadKernelModule" -> load_kernel_module(quick)
      [] k = "UnloadKernelModule" -> unload_kernel_module(quick)
      [] k = "UpdateInitramfs" -> update_initramfs(quick)
      [] k = "UpdateGrub" -> update_grub(quick)
      [] k = "MountPartition" -> mount_partition(quick)
      [] k = "UnmountPartition" -> unmount_partition(quick)
      [] k = "FormatPartition" -> format_partition(quick)
      [] k = "CreatePartition" -> create_partition(quick)
      [] k \in {"SetHostname", "SetTimezone", "SetLocale"} ->
            IF ~quick THEN 100 ELSE 0
      [] k = "CreateUser" -> create_user(quick)
      [] k = "SetPassword" -> IF ~quick THEN 300 ELSE 0
      [] k \in {"EnableService", "DisableService", "StartService",
                "StopService"} -> manage_service(quick)
      [] k = "InstallBootloader" -> install_bootloader(quick)
      [] k = "GenerateFstab" -> generate_fstab(quick)
      [] k = "CheckIntegrity" -> check_integrity(quick)
      [] k = "VerifySignature" -> verify_signature(quick)
      [] k = "CompileKernel" -> compile_kernel(quick)
      [] k = "InstallPackages" -> install_packages(cmd.packages, quick)
      [] k = "UpdateSystem" -> update_system(quick)
      [] k = "SyncTime" -> sync_time(quick)
      [] k = "TestHardware" -> test_hardware(cmd.component, quick)
      [] k = "BenchmarkCpu" -> benchmark_cpu(quick)
      [] k = "BenchmarkMemory" -> benchmark_memory(quick)
      [] k = "BenchmarkDisk" -> benchmark_disk(quick)
      [] k = "NetworkConfig" -> network_config(cmd.config, quick)
      [] k = "FirewallRule" -> IF ~quick THEN 100 ELSE 0
      [] k = "ScanHardware" -> scan_hardware(quick)
      [] k = "DetectDrivers" -> detect_drivers(quick)
      [] k = "InstallDriver" -> install_driver(quick)

\* RandomSystemInfo: what the fact source answers.  One run asks one source,
\* and the second run of a comparison asks the same one.
FactValues == {1, 2}
\* rng.gen_range(50..200) of update_system: the two ends of the range.
UpdateDraws == {50, 199}
\* rng.gen::<u64>() of verify_signature: two of its values.
KeyDraws == {0, 1}

\* The values execute_command(cmd) can draw from rand::thread_rng() to show
\* them: one value, 0, for a command that draws none.
Draws(cmd, vb) ==
    IF cmd.kind = "UpdateSystem" THEN UpdateDraws
    ELSE IF cmd.kind = "VerifySignature" /\ vb THEN KeyDraws
    ELSE {0}

\* What execute_command(cmd) prints for a variant other than Progress and
\* Download: the variant, with the value it shows where it shows one that
\* the script does not give.
ReportOf(cmd, quick, vb, fct, draw) ==
    LET k == cmd.kind IN
    CASE k = "UpdateSystem" -> [kind |-> k, updated |-> draw]
      [] k = "VerifySignature" /\ vb -> [kind |-> k, key_id |-> draw]
      [] k = "NetworkConfig" /\ ~quick /\ cmd.config = "dhcp" ->
            [kind |-> k, ip |-> fct]
      [] k \in {"DetectCpu", "DetectMemory", "DetectDisk", "DetectGpu",
                "DetectNetwork", "DetectOs", "DetectKernel", "DetectBios"} ->
            [kind |-> k, info |-> fct]
      [] OTHER -> [kind |-> k]

\* Simulator::run(pkg), called by main: the phases of the program it runs,
\* and the command `for phase` and `for cmd` stand at.
InRun == pc = "run" /\ pkg_i <= Len(install_order)
Phases == programs[install_order[pkg_i].file_path]
AtCommand == InRun /\ phase_i <= Len(Phases) /\ cmd_i <= Len(Phases[phase_i])

\* The interpreter can take another command.
Ready == ~panicked /\ ~dl.active

\* The commands execute_command can be called with: the next one of the
\* program when main runs a program, any one when the Simulator is taken by
\* itself.
Pending ==
    IF pc = "idle" THEN (IF ncmds < MaxCmds THEN Commands ELSE {})
    ELSE IF AtCommand THEN {Phases[phase_i][cmd_i]}
    ELSE {}

\* execute_command returned Ok(()): the effect is produced, and run_phase
\* goes on to the next command.
Returned(e) ==
    IF pc = "run"
    THEN /\ log' = Append(log, [pkg |-> pkg_i,
                                file |-> install_order[pkg_i].file_path,
                                phase |-> phase_i, cmd |-> cmd_i, effect |-> e])
         /\ cmd_i' = cmd_i + 1
         /\ UNCHANGED <<pc, main_args, files, file_i, base_path, place, programs,
                        install_order, pkg_i, phase_i, installed_count, shown>>
    ELSE UNCHANGED mainVars

\* execute_command(cmd) for Command::Progress.
ExecuteProgress ==
    /\ Ready
    /\ \E cmd \in Pending, checks \in BOOLEAN :
          /\ cmd.kind = "Progress"
          /\ LET r == ExecProgress(cmd.pct, progress, checks) IN
             /\ progress' = r.progress
             /\ panicked' = r.panic
             /\ effect' = r.effect
             /\ effect_twin' = r.effect
             /\ IF r.panic THEN UNCHANGED mainVars ELSE Returned(r.effect)
          /\ cur' = cmd
    /\ ncmds' = ncmds + 1
    /\ UNCHANGED <<quick_mode, verbose, slept, dl, facts>>
    /\ UNCHANGED <<resolveVars, parseVars>>

\* execute_command(cmd) for Command::Download: simulate_download up to its
\* loop in normal mode, all of it in quick mode.
ExecuteDownload ==
    /\ Ready
    /\ \E cmd \in Pending :
          /\ cmd.kind = "Download"
          /\ cur' = cmd
          /\ IF ~quick_mode
             THEN /\ dl' = [size |-> cmd.size, downloaded |-> 0, twin |-> 0,
                            active |-> TRUE]
                  /\ effect' = [kind |-> "Download", started |-> TRUE]
                  /\ UNCHANGED mainVars
             ELSE /\ dl' = NoDl
                  /\ effect' = [kind |-> "Download", reported |-> cmd.size]
                  /\ Returned(effect')
          /\ effect_twin' = effect'
    /\ ncmds' = ncmds + 1
    /\ UNCHANGED <<quick_mode, verbose, progress, slept, panicked, facts>>
    /\ UNCHANGED <<resolveVars, parseVars>>

DownloadChunk_NoMin ==
    /\ dl.active
    /\ dl.downloaded < dl.size \/ dl.twin < dl.size
    /\ \E draw \in ChunkDraws, ms \in SleepDraws, draw_twin \in ChunkDraws :
          LET Turn(at, d) == IF at < dl.size THEN at + d ELSE at
          IN
          /\ dl' = [dl EXCEPT !.downloaded = Turn(@, draw),
                              !.twin = Turn(@, draw_twin)]
          /\ effect' = [kind |-> "Download", position |-> Turn(dl.downloaded, draw)]
          /\ effect_twin' = [kind |-> "Download",
                             position |-> Turn(dl.twin, draw_twin)]
          /\ slept' = slept + (IF dl.downloaded < dl.size THEN ms ELSE 0)
    /\ UNCHANGED <<quick_mode, verbose, progress, panicked, ncmds, cur, facts>>
    /\ UNCHANGED <<resolveVars, parseVars, mainVars>>

\* simulate_download: one turn of `while downloaded < size`, in each of the
\* two runs that is still in the loop.
DownloadChunk ==
    /\ dl.active
    /\ dl.downloaded < dl.size \/ dl.twin < dl.size
    /\ \E draw \in ChunkDraws, ms \in SleepDraws, draw_twin \in ChunkDraws :
          LET Turn(at, d) == IF at < dl.size THEN at + Min(d, dl.size - at) ELSE at
          IN
          /\ dl' = [dl EXCEPT !.downloaded = Turn(@, draw),
                              !.twin = Turn(@, draw_twin)]
          /\ effect' = [kind |-> "Download", position |-> Turn(dl.downloaded, draw)]
          /\ effect_twin' = [kind |-> "Download",
                             position |-> Turn(dl.twin, draw_twin)]
          /\ slept' = slept + (IF dl.downloaded < dl.size THEN ms ELSE 0)
    /\ UNCHANGED <<quick_mode, verbose, progress, panicked, ncmds, cur, facts>>
    /\ UNCHANGED <<resolveVars, parseVars, mainVars>>

\* simulate_download: the loop is over; the size is reported.
DownloadEnd ==
    /\ dl.active
    /\ ~(dl.downloaded < dl.size \/ dl.twin < dl.size)
    /\ dl' = NoDl
    /\ effect' = [kind |-> "Download", reported |-> dl.size]
    /\ effect_twin' = effect'
    /\ Returned(effect')
    /\ UNCHANGED <<quick_mode, verbose, progress, slept, panicked, ncmds, cur, facts>>
    /\ UNCHANGED <<resolveVars, parseVars>>

ExecuteOther_ProgressReset ==
    /\ Ready
    /\ \E cmd \in Pending :
          /\ cmd.kind \notin {"Progress", "Download"}
          /\ cur' = cmd
          /\ slept' = slept + SleepOf(cmd, quick_mode)
          /\ \E draw \in Draws(cmd, verbose), draw_twin \in Draws(cmd, verbose) :
                /\ effect' = ReportOf(cmd, quick_mode, verbose, facts, draw)
                /\ effect_twin' = ReportOf(cmd, quick_mode, verbose, facts,
                                           draw_twin)
          /\ Returned(effect')
    /\ ncmds' = ncmds + 1
    /\ progress' = 0
    /\ UNCHANGED <<quick_mode, verbose, panicked, dl, facts>>
    /\ UNCHANGED <<resolveVars, parseVars>>

\* execute_command(cmd) for every other variant, in the two runs.
ExecuteOther ==
    /\ Ready
    /\ \E cmd \in Pending :
          /\ cmd.kind \notin {"Progress", "Download"}
          /\ cur' = cmd
          /\ slept' = slept + SleepOf(cmd, quick_mode)
          /\ \E draw \in Draws(cmd, verbose), draw_twin \in Draws(cmd, verbose) :
                /\ effect' = ReportOf(cmd, quick_mode, verbose, facts, draw)
                /\ effect_twin' = ReportOf(cmd, quick_mode, verbose, facts,
                                           draw_twin)
          /\ Returned(effect')
    /\ ncmds' = ncmds + 1
    /\ UNCHANGED <<quick_mode, verbose, progress, panicked, dl, facts>>
    /\ UNCHANGED <<resolveVars, parseVars>>

\* Simulator::new(args.quick, args.verbose)
SimInit ==
    /\ quick_mode \in BOOLEAN
    /\ verbose \in BOOLEAN
    /\ progress = 0
    /\ slept = 0
    /\ panicked = FALSE
    /\ ncmds = 0
    /\ cur = NoCmd
    /\ effect = NoEffect
    /\ dl = NoDl
    /\ facts \in FactValues
    /\ effect_twin = NoEffect
    /\ ResolveIdle
    /\ ParseIdle
    /\ MainIdle

SimNext ==
    \/ ExecuteProgress
    \/ ExecuteDownload
    \/ DownloadChunk
    \/ DownloadEnd
    \/ ExecuteOther

SpecSim == SimInit /\ [][SimNext]_vars

\* simulate_download is a loop of one thread: a turn that can be taken is
\* taken.
SpecSimFair == SpecSim /\ WF_vars(DownloadChunk) /\ WF_vars(DownloadEnd)

(***************************************************************************)
(*                  Properties of the command interpreter                  *)
(***************************************************************************)

\* C6: no command makes the interpretation stop partway: execute_command
\* never panics.
C6_NeverAborts == ~panicked

\* C7: in quick mode nothing is ever slept.
C7_QuickSleepsNothing == quick_mode => slept = 0

\* C7 witness: a quick run has executed a timed test after another timed
\* command.
C7_Witness ==
    /\ quick_mode
    /\ ncmds = MaxCmds
    /\ cur.kind = "RunTest"
    /\ cur.duration = 1000

\* C8: after a progress N command the last-known progress value is N, in
\* quick and in normal mode.
C8_ProgressIsSet == cur.kind = "Progress" => progress = cur.pct

\* C8 witness: progress 50 has run, in quick mode, after an earlier command.
C8_Witness ==
    /\ quick_mode
    /\ ncmds = MaxCmds
    /\ cur = [kind |-> "Progress", pct |-> 50]
    /\ progress = 50

\* C16: the fact source being the same, two runs of the same commands in the
\* same mode report the same: after every step of execute_command the second
\* run has shown what the first has shown.
C16_RunsAgree == effect_twin = effect

\* C24: in a run only a progress command changes the state of the
\* interpreter: a step of any other command leaves the last-progress value as
\* it was, and no step changes quick_mode or verbose.
C24_OnlyProgressChangesState ==
    [][/\ quick_mode' = quick_mode
       /\ verbose' = verbose
       /\ cur'.kind # "Progress" => progress' = progress]_vars

\* C24 witness: update_system has run after progress 50, and the
\* last-progress value is still 50.
C24_Witness ==
    /\ ncmds = 2
    /\ cur.kind = "UpdateSystem"
    /\ progress = 50

\* C25: over the commands of a run the last-progress value never decreases.
C25_ProgressMonotone == [][progress' >= progress]_vars

\* C29: in normal mode the loop of simulate_download ends for every size,
\* the count transferred is never above the size and is the size when the
\* loop ends, whatever chunks are drawn, and for size 0 the body of the loop
\* does not run: the step after the start is the end.
C29_DownloadTerminates ==
    /\ [](dl.downloaded <= dl.size)
    /\ dl.active ~> ~dl.active
    /\ [][(dl.active /\ ~dl'.active) => dl.downloaded = dl.size]_vars
    /\ [][(dl.active /\ dl.size = 0) => ~dl'.active]_vars

\* C29 witness: a download of the largest size is in its loop, part of it
\* transferred.
C29_Witness ==
    /\ ~quick_mode
    /\ dl.active
    /\ dl.size = MaxSize
    /\ 0 < dl.downloaded
    /\ dl.downloaded < dl.size

(***************************************************************************)
(*                              The parser                                 *)
(***************************************************************************)
\* A text is a sequence of characters, each a string of length one.

WhiteSpace == {" ", "\t"}
Digits == <<"0", "1", "2", "3", "4", "5", "6", "7", "8", "9">>
IsDigit(c) == \E d \in DOMAIN Digits : Digits[d] = c
DigitValue(c) == (CHOOSE d \in DOMAIN Digits : Digits[d] = c) - 1

Drop(s, n) == SubSeq(s, n + 1, Len(s))
Take(s, n) == SubSeq(s, 1, n)

\* str::starts_with
StartsWith(s, p) == Len(p) <= Len(s) /\ Take(s, Len(p)) = p

\* str::find of a pattern: the first position the pattern starts at, 0 for None.
Find(s, p) ==
    LET hits == {i \in 1 .. Len(s) - Len(p) + 1 : SubSeq(s, i, i + Len(p) - 1) = p}
    IN  IF hits = {} THEN 0 ELSE CHOOSE i \in hits : \A j \in hits : i <= j

\* str::contains of a character
Contains(s, c) == \E i \in DOMAIN s : s[i] = c

\* str::trim
Trim(s) ==
    LET keep == {i \in DOMAIN s : s[i] \notin WhiteSpace}
    IN  IF keep = {} THEN <<>>
        ELSE SubSeq(s, CHOOSE i \in keep : \A j \in keep : i <= j,
                       CHOOSE i \in keep : \A j \in keep : i >= j)

\* The value of a run of digits.
RECURSIVE DecimalValue(_)
DecimalValue(s) ==
    IF s = <<>> THEN 0 ELSE 10 * DecimalValue(Front(s)) + DigitValue(Last(s))

RECURSIVE StripZeros(_)
StripZeros(s) == IF s # <<>> /\ s[1] = "0" THEN StripZeros(Drop(s, 1)) ELSE s

\* a <= b, for runs of digits of one length
RECURSIVE DigitsLeq(_, _)
DigitsLeq(a, b) ==
    \/ a = <<>>
    \/ DigitValue(a[1]) < DigitValue(b[1])
    \/ a[1] = b[1] /\ DigitsLeq(Drop(a, 1), Drop(b, 1))

\* u8::MAX and u64::MAX, in digits
U8Max == <<"2", "5", "5">>
U64Max == <<"1", "8", "4", "4", "6", "7", "4", "4", "0", "7", "3", "7", "0", "9", "5", "5", "1", "6", "1", "5">>

\* str::parse::<u8> and str::parse::<u64>: an optional "+", then one digit at
\* least and digits only, the number no greater than the type's MAX.
ParseUnsigned(s, max) ==
    LET body == IF s # <<>> /\ s[1] = "+" THEN Drop(s, 1) ELSE s
        num == StripZeros(body)
    IN  IF body # <<>> /\ (\A i \in DOMAIN body : IsDigit(body[i]))
           /\ (Len(num) < Len(max) \/ (Len(num) = Len(max) /\ DigitsLeq(num, max)))
        THEN [ok |-> TRUE, value |-> DecimalValue(num)]
        ELSE [ok |-> FALSE]

\* InstnothParser::extract_quoted_value: what stands between the first two
\* double quotes of the line.
extract_quoted_value(line) ==
    LET start == Find(line, <<"\"">>)
        end == IF start = 0 THEN 0 ELSE Find(Drop(line, start), <<"\"">>)
    IN  IF start # 0 /\ end # 0
        THEN [ok |-> TRUE, value |-> SubSeq(line, start + 1, start + end - 1)]
        ELSE [ok |-> FALSE]

extract_phase_name_Lenient(line) ==
    LET start == Find(line, <<"\"">>)
        end == IF start = 0 THEN 0 ELSE Find(Drop(line, start), <<"\"">>)
    IN  IF start # 0 /\ end # 0
        THEN [ok |-> TRUE, value |-> SubSeq(line, start + 1, start + end - 1)]
        ELSE [ok |-> TRUE, value |-> <<>>]

\* InstnothParser::extract_phase_name
extract_phase_name(line) ==
    LET start == Find(line, <<"\"">>)
        end == IF start = 0 THEN 0 ELSE Find(Drop(line, start), <<"\"">>)
    IN  IF start # 0 /\ end # 0
        THEN [ok |-> TRUE, value |-> SubSeq(line, start + 1, start + end - 1)]
        ELSE [ok |-> FALSE]

\* InstnothParser::extract_param: the digits after the first `name=`.
extract_param(args, name) ==
    LET pos == Find(args, name \o <<"=">>)
        rest == Drop(args, pos - 1 + Len(name) + 1)
        stops == {i \in DOMAIN rest : ~IsDigit(rest[i])}
        end == IF stops = {} THEN Len(rest)
               ELSE (CHOOSE i \in stops : \A j \in stops : i <= j) - 1
    IN  IF pos = 0 THEN [ok |-> FALSE]
        ELSE ParseUnsigned(Take(rest, end), U64Max)

\* InstnothParser::extract_string_param: what stands between the first
\* `name="` and the next double quote.
extract_string_param(args, name) ==
    LET pos == Find(args, name \o <<"=", "\"">>)
        rest == Drop(args, pos - 1 + Len(name) + 2)
        end == Find(rest, <<"\"">>)
    IN  IF pos # 0 /\ end # 0
        THEN [ok |-> TRUE, value |-> Take(rest, end - 1)]
        ELSE [ok |-> FALSE]

UnwrapOr_Zero(r, default) == IF r.ok THEN r.value ELSE 0

\* Option::unwrap_or
UnwrapOr(r, default) == IF r.ok THEN r.value ELSE default

DependsChar_OutsideKept(st, c) ==
    CASE c = "\"" ->
            [deps |-> IF st.in_quotes /\ Trim(st.current) # <<>>
                      THEN Append(st.deps, Trim(st.current)) ELSE st.deps,
             current |-> IF st.in_quotes THEN <<>> ELSE st.current,
             in_quotes |-> ~st.in_quotes]
      [] c = "," /\ ~st.in_quotes ->
            [deps |-> IF Trim(st.current) # <<>>
                      THEN Append(st.deps, Trim(st.current)) ELSE st.deps,
             current |-> <<>>,
             in_quotes |-> st.in_quotes]
      [] OTHER -> [st EXCEPT !.current = Append(@, c)]

\* InstnothParser::parse_depends, one character at a time: st is (deps,
\* current, in_quotes).
DependsChar(st, c) ==
    CASE c = "\"" ->
            [deps |-> IF st.in_quotes /\ Trim(st.current) # <<>>
                      THEN Append(st.deps, Trim(st.current)) ELSE st.deps,
             current |-> IF st.in_quotes THEN <<>> ELSE st.current,
             in_quotes |-> ~st.in_quotes]
      [] c = "," /\ ~st.in_quotes ->
            [deps |-> IF Trim(st.current) # <<>>
                      THEN Append(st.deps, Trim(st.current)) ELSE st.deps,
             current |-> <<>>,
             in_quotes |-> st.in_quotes]
      [] OTHER ->
            IF st.in_quotes THEN [st EXCEPT !.current = Append(@, c)] ELSE st

RECURSIVE DependsFold(_, _)
DependsFold(st, s) ==
    IF s = <<>> THEN st ELSE DependsFold(DependsChar(st, s[1]), Drop(s, 1))

parse_depends(deps_str) ==
    LET st == DependsFold([deps |-> <<>>, current |-> <<>>, in_quotes |-> FALSE],
                          deps_str)
    IN  IF Trim(st.current) # <<>> THEN Append(st.deps, Trim(st.current))
        ELSE st.deps

\* The vocabulary of parse_command, by the shape of the arm: the word and the
\* variant, and for a word with a named text parameter the parameter and its
\* default.
QuotedWords == {
    <<<<"m", "e", "s", "s", "a", "g", "e">>, "Message">>,
    <<<<"c", "r", "e", "a", "t", "e", "_", "d", "i", "r">>, "CreateDir">>,
    <<<<"s", "u", "c", "c", "e", "s", "s">>, "Success">>,
    <<<<"e", "r", "r", "o", "r">>, "Error">>,
    <<<<"w", "a", "r", "n", "i", "n", "g">>, "Warning">>,
    <<<<"r", "u", "n", "_", "s", "c", "r", "i", "p", "t">>, "RunScript">>,
    <<<<"c", "h", "e", "c", "k", "_", "d", "e", "p">>, "CheckDep">>,
    <<<<"l", "o", "a", "d", "_", "m", "o", "d", "u", "l", "e">>, "LoadKernelModule">>,
    <<<<"u", "n", "l", "o", "a", "d", "_", "m", "o", "d", "u", "l", "e">>, "UnloadKernelModule">>,
    <<<<"u", "n", "m", "o", "u", "n", "t">>, "UnmountPartition">>,
    <<<<"s", "e", "t", "_", "h", "o", "s", "t", "n", "a", "m", "e">>, "SetHostname">>,
    <<<<"s", "e", "t", "_", "t", "i", "m", "e", "z", "o", "n", "e">>, "SetTimezone">>,
    <<<<"s", "e", "t", "_", "l", "o", "c", "a", "l", "e">>, "SetLocale">>,
    <<<<"s", "e", "t", "_", "p", "a", "s", "s", "w", "o", "r", "d">>, "SetPassword">>,
    <<<<"e", "n", "a", "b", "l", "e", "_", "s", "e", "r", "v", "i", "c", "e">>, "EnableService">>,
    <<<<"d", "i", "s", "a", "b", "l", "e", "_", "s", "e", "r", "v", "i", "c", "e">>, "DisableService">>,
    <<<<"s", "t", "a", "r", "t", "_", "s", "e", "r", "v", "i", "c", "e">>, "StartService">>,
    <<<<"s", "t", "o", "p", "_", "s", "e", "r", "v", "i", "c", "e">>, "StopService">>,
    <<<<"i", "n", "s", "t", "a", "l", "l", "_", "b", "o", "o", "t", "l", "o", "a", "d", "e", "r">>, "InstallBootloader">>,
    <<<<"c", "h", "e", "c", "k", "_", "i", "n", "t", "e", "g", "r", "i", "t", "y">>, "CheckIntegrity">>,
    <<<<"v", "e", "r", "i", "f", "y", "_", "s", "i", "g", "n", "a", "t", "u", "r", "e">>, "VerifySignature">>,
    <<<<"c", "o", "m", "p", "i", "l", "e", "_", "k", "e", "r", "n", "e", "l">>, "CompileKernel">>,
    <<<<"i", "n", "s", "t", "a", "l", "l", "_", "p", "a", "c", "k", "a", "g", "e", "s">>, "InstallPackages">>,
    <<<<"t", "e", "s", "t", "_", "h", "a", "r", "d", "w", "a", "r", "e">>, "TestHardware">>,
    <<<<"f", "i", "r", "e", "w", "a", "l", "l", "_", "r", "u", "l", "e">>, "FirewallRule">>,
    <<<<"i", "n", "s", "t", "a", "l", "l", "_", "d", "r", "i", "v", "e", "r">>, "InstallDriver">>}

BareWords == {
    <<<<"c", "l", "e", "a", "n", "u", "p">>, "Cleanup">>,
    <<<<"d", "e", "t", "e", "c", "t", "_", "c", "p", "u">>, "DetectCpu">>,
    <<<<"d", "e", "t", "e", "c", "t", "_", "m", "e", "m", "o", "r", "y">>, "DetectMemory">>,
    <<<<"d", "e", "t", "e", "c", "t", "_", "d", "i", "s", "k">>, "DetectDisk">>,
    <<<<"d", "e", "t", "e", "c", "t", "_", "g", "p", "u">>, "DetectGpu">>,
    <<<<"d", "e", "t", "e", "c", "t", "_", "n", "e", "t", "w", "o", "r", "k">>, "DetectNetwork">>,
    <<<<"d", "e", "t", "e", "c", "t", "_", "o", "s">>, "DetectOs">>,
    <<<<"d", "e", "t", "e", "c", "t", "_", "k", "e", "r", "n", "e", "l">>, "DetectKernel">>,
    <<<<"d", "e", "t", "e", "c", "t", "_", "b", "i", "o", "s">>, "DetectBios">>,
    <<<<"u", "p", "d", "a", "t", "e", "_", "i", "n", "i", "t", "r", "a", "m", "f", "s">>, "UpdateInitramfs">>,
    <<<<"u", "p", "d", "a", "t", "e", "_", "g", "r", "u", "b">>, "UpdateGrub">>,
    <<<<"g", "e", "n", "e", "r", "a", "t", "e", "_", "f", "s", "t", "a", "b">>, "GenerateFstab">>,
    <<<<"u", "p", "d", "a", "t", "e", "_", "s", "y", "s", "t", "e", "m">>, "UpdateSystem">>,
    <<<<"s", "y", "n", "c", "_", "t", "i", "m", "e">>, "SyncTime">>,
    <<<<"b", "e", "n", "c", "h", "m", "a", "r", "k", "_", "c", "p", "u">>, "BenchmarkCpu">>,
    <<<<"b", "e", "n", "c", "h", "m", "a", "r", "k", "_", "m", "e", "m", "o", "r", "y">>, "BenchmarkMemory">>,
    <<<<"b", "e", "n", "c", "h", "m", "a", "r", "k", "_", "d", "i", "s", "k">>, "BenchmarkDisk">>,
    <<<<"s", "c", "a", "n", "_", "h", "a", "r", "d", "w", "a", "r", "e">>, "ScanHardware">>,
    <<<<"d", "e", "t", "e", "c", "t", "_", "d", "r", "i", "v", "e", "r", "s">>, "DetectDrivers">>}

QuotedParamWords == {
    <<<<"e", "x", "t", "r", "a", "c", "t">>, "Extract", <<"t", "o">>, <<>>>>,
    <<<<"i", "n", "s", "t", "a", "l", "l", "_", "d", "e", "p">>, "InstallDep", <<"v", "e", "r", "s", "i", "o", "n">>, <<"l", "a", "t", "e", "s", "t">>>>,
    <<<<"c", "o", "p", "y", "_", "f", "i", "l", "e">>, "CopyFile", <<"t", "o">>, <<>>>>,
    <<<<"s", "y", "m", "l", "i", "n", "k">>, "Symlink", <<"t", "o">>, <<>>>>,
    <<<<"s", "e", "t", "_", "p", "e", "r", "m", "i", "s", "s", "i", "o", "n">>, "SetPermission", <<"m", "o", "d", "e">>, <<"7", "5", "5">>>>,
    <<<<"w", "r", "i", "t", "e", "_", "c", "o", "n", "f", "i", "g">>, "WriteConfig", <<"c", "o", "n", "t", "e", "n", "t">>, <<>>>>,
    <<<<"m", "o", "u", "n", "t">>, "MountPartition", <<"t", "o">>, <<>>>>,
    <<<<"f", "o", "r", "m", "a", "t">>, "FormatPartition", <<"f", "s">>, <<"e", "x", "t", "4">>>>,
    <<<<"c", "r", "e", "a", "t", "e", "_", "p", "a", "r", "t", "i", "t", "i", "o", "n">>, "CreatePartition", <<"s", "i", "z", "e">>, <<"1", "0", "0", "%">>>>,
    <<<<"c", "r", "e", "a", "t", "e", "_", "u", "s", "e", "r">>, "CreateUser", <<"g", "r", "o", "u", "p", "s">>, <<"u", "s", "e", "r", "s">>>>,
    <<<<"n", "e", "t", "w", "o", "r", "k", "_", "c", "o", "n", "f", "i", "g">>, "NetworkConfig", <<"c", "o", "n", "f", "i", "g">>, <<"d", "h", "c", "p">>>>}

\* `line.splitn(2, ' ')`: the text before the first space, and the text
\* after it.
SplitWord(line) ==
    LET sp == Find(line, <<" ">>)
    IN  IF sp = 0 THEN [cmd |-> line, args |-> <<>>]
        ELSE [cmd |-> Take(line, sp - 1), args |-> Drop(line, sp)]

CmdOk(c) == [ok |-> TRUE, cmd |-> c]
CmdErr == [ok |-> FALSE]

\* InstnothParser::parse_command
parse_command(line) ==
    LET parts == SplitWord(line)
        cmd == parts.cmd
        args == parts.args
        quoted == extract_quoted_value(line)
    IN  CASE \E w \in QuotedWords : w[1] = cmd ->
                LET w == CHOOSE w \in QuotedWords : w[1] = cmd
                IN  IF quoted.ok THEN CmdOk([kind |-> w[2], value |-> quoted.value])
                    ELSE CmdErr
          [] \E w \in BareWords : w[1] = cmd ->
                CmdOk([kind |-> (CHOOSE w \in BareWords : w[1] = cmd)[2]])
          [] \E w \in QuotedParamWords : w[1] = cmd ->
                LET w == CHOOSE w \in QuotedParamWords : w[1] = cmd
                IN  IF quoted.ok
                    THEN CmdOk([kind |-> w[2], value |-> quoted.value,
                                param |-> UnwrapOr(extract_string_param(args, w[3]), w[4])])
                    ELSE CmdErr
          [] cmd = <<"d", "e", "l", "a", "y">> ->
                CmdOk([kind |-> "Delay",
                       ms |-> UnwrapOr(ParseUnsigned(Trim(args), U64Max), 100)])
          [] cmd = <<"p", "r", "o", "g", "r", "e", "s", "s">> ->
                CmdOk([kind |-> "Progress",
                       pct |-> UnwrapOr(ParseUnsigned(Trim(args), U8Max), 0)])
          [] cmd = <<"d", "o", "w", "n", "l", "o", "a", "d">> ->
                IF quoted.ok
                THEN CmdOk([kind |-> "Download", url |-> quoted.value,
                            size |-> UnwrapOr(extract_param(args, <<"s", "i", "z", "e">>), 1024)])
                ELSE CmdErr
          [] cmd = <<"r", "u", "n", "_", "t", "e", "s", "t">> ->
                IF quoted.ok
                THEN CmdOk([kind |-> "RunTest", name |-> quoted.value,
                            duration |-> UnwrapOr(extract_param(args, <<"d", "u", "r", "a", "t", "i", "o", "n">>), 1000)])
                ELSE CmdErr
          [] cmd = <<"c", "o", "n", "f", "i", "g", "u", "r", "e">> ->
                CmdOk([kind |-> "Configure",
                       key |-> UnwrapOr(extract_string_param(args, <<"k", "e", "y">>), <<>>),
                       value |-> UnwrapOr(extract_string_param(args, <<"v", "a", "l", "u", "e">>), <<>>)])
          [] OTHER -> CmdErr

\* parse, in a phase: from line i on, the lines up to the closing brace, each
\* one that parse_command accepts giving a command.  Returns the commands and
\* the index the loop stops at.
RECURSIVE PhaseLines_StopAtBadLine(_, _, _)
PhaseLines_StopAtBadLine(lines, i, commands) ==
    IF i > Len(lines) THEN [commands |-> commands, i |-> i]
    ELSE LET cmd_line == Trim(lines[i]) IN
         IF StartsWith(cmd_line, <<"}">>) THEN [commands |-> commands, i |-> i]
         ELSE IF cmd_line # <<>> /\ ~StartsWith(cmd_line, <<"#">>)
         THEN IF parse_command(cmd_line).ok
              THEN PhaseLines_StopAtBadLine(lines, i + 1,
                                            Append(commands, parse_command(cmd_line).cmd))
              ELSE [commands |-> commands, i |-> Len(lines) + 1]
         ELSE PhaseLines_StopAtBadLine(lines, i + 1, commands)

RECURSIVE PhaseLines(_, _, _)
PhaseLines(lines, i, commands) ==
    IF i > Len(lines) THEN [commands |-> commands, i |-> i]
    ELSE LET cmd_line == Trim(lines[i]) IN
         IF StartsWith(cmd_line, <<"}">>) THEN [commands |-> commands, i |-> i]
         ELSE IF cmd_line # <<>> /\ ~StartsWith(cmd_line, <<"#">>)
                 /\ parse_command(cmd_line).ok
         THEN PhaseLines(lines, i + 1, Append(commands, parse_command(cmd_line).cmd))
         ELSE PhaseLines(lines, i + 1, commands)

\* parse, at a phase line without a brace: the index of the next line that
\* holds one (or one past the last line).
RECURSIVE BraceLine_SkipsOne(_, _)
BraceLine_SkipsOne(lines, i) ==
    IF i <= Len(lines) /\ ~Contains(lines[i], "{") THEN BraceLine_SkipsOne(lines, i + 1)
    ELSE i + 1

RECURSIVE BraceLine(_, _)
BraceLine(lines, i) ==
    IF i <= Len(lines) /\ ~Contains(lines[i], "{") THEN BraceLine(lines, i + 1)
    ELSE i

EmptyPackage ==
    [name |-> <<>>, version |-> <<>>, description |-> <<>>, author |-> <<>>,
     depends |-> <<>>, phases |-> <<>>]

ParseOk(p) == [tag |-> "Ok", package |-> p]
ParseErr(m) == [tag |-> "Err", msg |-> m]

Parsing == parsed = NoRet /\ line_i <= Len(content)
Line == Trim(content[line_i])
IsBlank(line) == line = <<>> \/ StartsWith(line, <<"#">>)

\* The top-level keys with a quoted value, and the field each sets.
TopKeys == {
    <<<<"p", "a", "c", "k", "a", "g", "e", ":">>, "name">>,
    <<<<"v", "e", "r", "s", "i", "o", "n", ":">>, "version">>,
    <<<<"d", "e", "s", "c", "r", "i", "p", "t", "i", "o", "n", ":">>, "description">>,
    <<<<"a", "u", "t", "h", "o", "r", ":">>, "author">>}

\* The first branch of the if-chain of parse the line takes.
LineClass(line) ==
    IF IsBlank(line) THEN "blank"
    ELSE IF \E k \in TopKeys : StartsWith(line, k[1]) THEN "key"
    ELSE IF StartsWith(line, <<"d", "e", "p", "e", "n", "d", "s", ":">>) THEN "depends"
    ELSE IF StartsWith(line, <<"p", "h", "a", "s", "e">>) THEN "phase"
    ELSE "other"

\* parse: a blank line or a comment.
ParseBlank ==
    /\ Parsing
    /\ LineClass(Line) = "blank"
    /\ line_i' = line_i + 1
    /\ UNCHANGED <<script, content, package, parsed>>
    /\ UNCHANGED <<resolveVars, simVars, mainVars>>

\* parse: `package:`, `version:`, `description:` or `author:`.
ParseKey ==
    /\ Parsing
    /\ LineClass(Line) = "key"
    /\ LET key == CHOOSE k \in TopKeys : StartsWith(Line, k[1])
           v == extract_quoted_value(Line)
       IN  IF v.ok
           THEN /\ package' = [package EXCEPT ![key[2]] = v.value]
                /\ line_i' = line_i + 1
                /\ UNCHANGED parsed
           ELSE /\ parsed' = ParseErr("value")
                /\ UNCHANGED <<package, line_i>>
    /\ UNCHANGED <<script, content>>
    /\ UNCHANGED <<resolveVars, simVars, mainVars>>

\* parse: `depends:`.
ParseDepends ==
    /\ Parsing
    /\ LineClass(Line) = "depends"
    /\ package' = [package EXCEPT !.depends = parse_depends(Drop(Line, 8))]
    /\ line_i' = line_i + 1
    /\ UNCHANGED <<script, content, parsed>>
    /\ UNCHANGED <<resolveVars, simVars, mainVars>>

\* parse: a `phase` line, with the lines of the phase.
ParsePhase ==
    /\ Parsing
    /\ LineClass(Line) = "phase"
    /\ LET phase_name == extract_phase_name(Line)
           open == IF Contains(Line, "{") THEN line_i
                   ELSE BraceLine(content, line_i + 1)
           body == PhaseLines(content, open + 1, <<>>)
       IN  IF phase_name.ok
           THEN /\ package' = [package EXCEPT !.phases =
                       Append(@, [name |-> phase_name.value,
                                  commands |-> body.commands])]
                /\ line_i' = body.i + 1
                /\ UNCHANGED parsed
           ELSE /\ parsed' = ParseErr("phase")
                /\ UNCHANGED <<package, line_i>>
    /\ UNCHANGED <<script, content>>
    /\ UNCHANGED <<resolveVars, simVars, mainVars>>

\* parse: any other line is passed over.
ParseOther ==
    /\ Parsing
    /\ LineClass(Line) = "other"
    /\ line_i' = line_i + 1
    /\ UNCHANGED <<script, content, package, parsed>>
    /\ UNCHANGED <<resolveVars, simVars, mainVars>>

ParseEnd_NameUnchecked ==
    /\ parsed = NoRet
    /\ line_i > Len(content)
    /\ parsed' = ParseOk(package)
    /\ UNCHANGED <<script, content, line_i, package>>
    /\ UNCHANGED <<resolveVars, simVars, mainVars>>

\* parse: after the last line.
ParseEnd ==
    /\ parsed = NoRet
    /\ line_i > Len(content)
    /\ parsed' = IF package.name = <<>> THEN ParseErr("name") ELSE ParseOk(package)
    /\ UNCHANGED <<script, content, line_i, package>>
    /\ UNCHANGED <<resolveVars, simVars, mainVars>>

\* ---- The scripts parse is run on ----
\* A script is a header, one phase and a tail.  The lines of the phase are
\* given by what each is meant to be, and written out by RenderLine.

MaxBody == 3     \* lines between the braces of the phase

Quote(t) == <<"\"">> \o t \o <<"\"">>

RECURSIVE DigitsOf(_)
DigitsOf(n) ==
    IF n < 10 THEN <<Digits[n + 1]>>
    ELSE Append(DigitsOf(n \div 10), Digits[(n % 10) + 1])

Texts == {<<"a">>, <<"b">>}
Urls == {<<"u">>, <<"u", "?", "s", "i", "z", "e", "=", "7">>}
ExplicitSizes == {5, 2048}

BodyLines ==
    {[k |-> "message", text |-> t, indent |-> FALSE] : t \in Texts}
    \cup {[k |-> "message", text |-> <<"a">>, indent |-> TRUE]}
    \cup {[k |-> "download", url |-> u, explicit |-> FALSE, size |-> 0] : u \in Urls}
    \cup {[k |-> "download", url |-> u, explicit |-> TRUE, size |-> s] :
             u \in Urls, s \in ExplicitSizes}
    \cup {[k |-> x] : x \in {"cleanup", "unknown", "unquoted", "halfquoted",
                             "comment", "blank"}}

RenderLine(l) ==
    CASE l.k = "message" ->
            IF l.indent THEN <<"\t", " ">> \o <<"m", "e", "s", "s", "a", "g", "e", " ">> \o Quote(l.text) \o <<" ">>
            ELSE <<"m", "e", "s", "s", "a", "g", "e", " ">> \o Quote(l.text)
      [] l.k = "download" ->
            <<"d", "o", "w", "n", "l", "o", "a", "d", " ">> \o Quote(l.url)
            \o (IF l.explicit THEN <<" ", "s", "i", "z", "e", "=">> \o DigitsOf(l.size) ELSE <<>>)
      [] l.k = "cleanup" -> <<"c", "l", "e", "a", "n", "u", "p">>
      [] l.k = "unknown" -> <<"b", "o", "g", "u", "s", "_", "c", "m", "d", " ", "f", "o", "o">>
      [] l.k = "unquoted" -> <<"m", "e", "s", "s", "a", "g", "e", " ", "a">>
      [] l.k = "halfquoted" -> <<"m", "e", "s", "s", "a", "g", "e", " ", "\"", "a">>
      [] l.k = "comment" -> <<"#", " ", "m", "e", "s", "s", "a", "g", "e", " ", "\"", "a", "\"">>
      [] l.k = "blank" -> <<>>

\* Lines of a phase with a numeric argument: no argument, a word, a number,
\* a number of two parts, a signed number, and a number too large for the type.
DelayLines ==
    {[k |-> "delay", arg |-> a, n |-> 0] : a \in {"absent", "word", "mixed", "negative", "huge"}}
    \cup {[k |-> "delay", arg |-> "number", n |-> n] : n \in {0, 250}}
ProgressLines ==
    {[k |-> "progress", arg |-> a, n |-> 0] : a \in {"absent", "word", "mixed", "negative"}}
    \cup {[k |-> "progress", arg |-> "number", n |-> n] : n \in {0, 50, 255, 256, 300}}
NumericLines == DelayLines \cup ProgressLines

RenderArg(l) ==
    CASE l.arg = "absent" -> <<>>
      [] l.arg = "word" -> <<" ", "a", "b", "c">>
      [] l.arg = "mixed" -> <<" ", "1", "2", "a", "b">>
      [] l.arg = "negative" -> <<" ", "-", "5">>
      [] l.arg = "huge" -> <<" ", "9", "9", "9", "9", "9", "9", "9", "9", "9", "9", "9", "9", "9", "9", "9", "9", "9", "9", "9", "9">>
      [] l.arg = "number" -> <<" ">> \o DigitsOf(l.n)

\* Lines with a numeric named parameter: `download "u"` with size, and
\* `run_test "t"` with duration.  The parameter is not written, written
\* without a digit after the `=`, or written as digits, alone or with text
\* after them.
ParamWords == {"download", "run_test"}
ParamLines ==
    {[k |-> "param", word |-> w, form |-> f, n |-> 0] :
        w \in ParamWords, f \in {"absent", "empty", "nodigit", "spaced"}}
    \cup {[k |-> "param", word |-> w, form |-> "digits", n |-> n] :
              w \in ParamWords, n \in {0, 5, 2048}}
    \cup {[k |-> "param", word |-> w, form |-> "suffixed", n |-> n] :
              w \in ParamWords, n \in {5, 2048}}

RenderParam(l) ==
    LET key == IF l.word = "download" THEN <<"s", "i", "z", "e", "=">> ELSE <<"d", "u", "r", "a", "t", "i", "o", "n", "=">>
    IN  (IF l.word = "download" THEN <<"d", "o", "w", "n", "l", "o", "a", "d", " ", "\"", "u", "\"">> ELSE <<"r", "u", "n", "_", "t", "e", "s", "t", " ", "\"", "t", "\"">>)
        \o CASE l.form = "absent" -> <<>>
              [] l.form = "empty" -> <<" ">> \o key
              [] l.form = "nodigit" -> <<" ">> \o key \o <<"K", "B">>
              [] l.form = "spaced" -> <<" ">> \o key \o <<" ">> \o <<"5">>
              [] l.form = "digits" -> <<" ">> \o key \o DigitsOf(l.n)
              [] l.form = "suffixed" -> <<" ">> \o key \o DigitsOf(l.n) \o <<"K", "B">>

\* Valid command lines with a tab between the word and the argument.
TabbedLines == {[k |-> "tabbed", word |-> w] : w \in {"message", "delay", "download"}}

RenderTabbed(l) ==
    CASE l.word = "message" -> <<"m", "e", "s", "s", "a", "g", "e">> \o <<"\t">> \o <<"\"", "a", "\"">>
      [] l.word = "delay" -> <<"d", "e", "l", "a", "y">> \o <<"\t">> \o <<"2", "5", "0">>
      [] l.word = "download" -> <<"d", "o", "w", "n", "l", "o", "a", "d">> \o <<"\t">> \o <<"\"", "u", "\"", " ", "s", "i", "z", "e", "=", "5">>

\* A line that starts with the closing brace.
CloseLine == [k |-> "close"]

RenderBodyLine(l) ==
    CASE l.k = "delay" -> <<"d", "e", "l", "a", "y">> \o RenderArg(l)
      [] l.k = "progress" -> <<"p", "r", "o", "g", "r", "e", "s", "s">> \o RenderArg(l)
      [] l.k = "param" -> RenderParam(l)
      [] l.k = "tabbed" -> RenderTabbed(l)
      [] l.k = "close" -> <<"}", " ", "#", " ", "e", "n", "d">>
      [] OTHER -> RenderLine(l)

MessageA == [k |-> "message", text |-> <<"a">>, indent |-> FALSE]
MessageB == [k |-> "message", text |-> <<"b">>, indent |-> FALSE]
NumericBodies ==
    {<<n>> : n \in NumericLines} \cup {<<MessageA, n, MessageB>> : n \in NumericLines}

\* A `depends:` line: quoted tokens with one separator between them, the
\* last quote left open or not.
MaxTokens == 2
Tokens == {<<"x">>, <<"y">>, <<"x", ",", "y">>, <<" ", "x", " ">>, <<" ">>, <<>>}
Separators == {<<" ">>, <<",">>, <<",", " ">>, <<" ", ",", " ">>, <<" ", "a", "n", "d", " ">>, <<>>}
NoDeps == [given |-> FALSE]
DependsIntents ==
    {[given |-> TRUE, tokens |-> t, sep |-> s, open |-> o] :
        t \in SeqsUpTo(Tokens, MaxTokens), s \in Separators, o \in BOOLEAN}

RECURSIVE JoinTokens(_, _, _)
JoinTokens(tokens, sep, open) ==
    IF tokens = <<>> THEN <<>>
    ELSE IF Len(tokens) = 1
    THEN <<"\"">> \o tokens[1] \o (IF open THEN <<>> ELSE <<"\"">>)
    ELSE Quote(tokens[1]) \o sep \o JoinTokens(Drop(tokens, 1), sep, open)

DependsLine(d) == <<"d", "e", "p", "e", "n", "d", "s", ":", " ">> \o JoinTokens(d.tokens, d.sep, d.open)

PlainHeader == <<<<"p", "a", "c", "k", "a", "g", "e", ":", " ", "\"", "p", "\"">>>>
NamedHeaders == {
    <<<<"p", "a", "c", "k", "a", "g", "e", ":", " ", "\"", "p", "\"">>>>,
    <<<<"#", " ", "c">>, <<"p", "a", "c", "k", "a", "g", "e", ":", " ", "\"", "p", "\"">>, <<"v", "e", "r", "s", "i", "o", "n", ":", " ", "\"", "1", "\"">>, <<"d", "e", "p", "e", "n", "d", "s", ":", " ", "\"", "x", "\"", " ", "\"", "y", "\"">>>>,
    <<<<"n", "a", "m", "e", " ", "p">>, <<"p", "a", "c", "k", "a", "g", "e", ":", " ", "\"", "p", "\"">>>>,
    <<<<"p", "a", "c", "k", "a", "g", "e", ":", " ", "\"", "p", "\"">>, <<"d", "e", "p", "e", "n", "d", "s", ":", " ", "x">>, <<"l", "i", "c", "e", "n", "s", "e", ":", " ", "\"", "m", "\"">>>>}
UnnamedHeaders == {
    <<>>,
    <<<<"p", "a", "c", "k", "a", "g", "e", ":", " ", "p">>>>,
    <<<<"p", "a", "c", "k", "a", "g", "e", ":", " ", "\"", "p">>>>,
    <<<<"p", "a", "c", "k", "a", "g", "e", ":", " ", "\"", "\"">>>>,
    <<<<"v", "e", "r", "s", "i", "o", "n", ":", " ", "\"", "1", "\"">>, <<"P", "a", "c", "k", "a", "g", "e", ":", " ", "\"", "p", "\"">>>>}
\* Headers with a name, and a top-level key without a quoted value.
BadValueHeaders == {
    <<<<"p", "a", "c", "k", "a", "g", "e", ":", " ", "\"", "p", "\"">>, <<"v", "e", "r", "s", "i", "o", "n", ":", " ", "1">>>>,
    <<<<"d", "e", "s", "c", "r", "i", "p", "t", "i", "o", "n", ":", " ", "d">>, <<"p", "a", "c", "k", "a", "g", "e", ":", " ", "\"", "p", "\"">>>>,
    <<<<"p", "a", "c", "k", "a", "g", "e", ":", " ", "\"", "p", "\"">>, <<"a", "u", "t", "h", "o", "r", ":", " ", "\"", "z">>>>}
Headers == NamedHeaders \cup UnnamedHeaders \cup BadValueHeaders

PhaseLine == <<"p", "h", "a", "s", "e", " ", "\"", "x", "\"", " ", "{">>
UnquotedPhaseLine == <<"p", "h", "a", "s", "e", " ", "x", " ", "{">>
PhaseKinds == {"quoted", "unquoted"}
\* The phase line without the brace, and the brace on a line of its own.
BracelessPhaseLine == <<"p", "h", "a", "s", "e", " ", "\"", "x", "\"">>
\* Where the opening brace of the phase stands: on the phase line, on the
\* next line, or after a blank line and a comment.
BracePlaces == {"quoted", "next", "later"}
PhaseOpening(ph) ==
    CASE ph = "quoted" -> <<PhaseLine>>
      [] ph = "unquoted" -> <<UnquotedPhaseLine>>
      [] ph = "next" -> <<BracelessPhaseLine, <<"{">>>>
      [] ph = "later" -> <<BracelessPhaseLine, <<>>, <<"#", " ", "c">>, <<" ", " ">> \o <<"{">>>>
\* Lines after the phase: a top-level key, a second phase with its brace on
\* the next line, and a top-level key after it.
MoreTail ==
    <<<<"v", "e", "r", "s", "i", "o", "n", ":", " ", "\"", "2", "\"">>, <<"p", "h", "a", "s", "e", " ", "\"", "y", "\"">>, <<"{">>, <<" ">> \o <<"m", "e", "s", "s", "a", "g", "e", " ", "\"", "b", "\"">>, <<"}">>,
      <<"a", "u", "t", "h", "o", "r", ":", " ", "\"", "z", "\"">>>>
CleanupLine == [k |-> "cleanup"]
BraceBodies ==
    {<<>>, <<MessageA>>, <<MessageA, CleanupLine>>, <<MessageA, CloseLine, MessageB>>,
     <<CloseLine>>}
Tails == {<<>>, <<<<"a", "u", "t", "h", "o", "r", ":", " ", "\"", "z", "\"">>>>}

Script(h, d, ph, b, t) ==
    [header |-> h, deps |-> d, phase |-> ph, body |-> b, tail |-> t]

Scripts ==
    {Script(PlainHeader, NoDeps, "quoted", b, t) :
        b \in SeqsUpTo(BodyLines, MaxBody), t \in Tails}
    \cup {Script(h, NoDeps, ph, b, <<>>) :
        h \in Headers, ph \in PhaseKinds, b \in SeqsUpTo(BodyLines, 1)}
    \cup {Script(PlainHeader, d, "quoted", <<>>, <<>>) : d \in DependsIntents}
    \cup {Script(PlainHeader, NoDeps, "quoted", b, <<>>) : b \in NumericBodies}
    \cup {Script(PlainHeader, NoDeps, "quoted", b, <<>>) :
             b \in {<<p>> : p \in ParamLines}
                   \cup {<<MessageA, p, MessageB>> : p \in ParamLines}}
    \cup {Script(PlainHeader, NoDeps, "quoted", b, <<>>) :
             b \in {<<t>> : t \in TabbedLines}
                   \cup {<<MessageA, t, MessageB>> : t \in TabbedLines}}
    \cup {Script(PlainHeader, NoDeps, ph, b, t) :
             ph \in BracePlaces, b \in BraceBodies, t \in {<<>>, MoreTail}}

Document(s) ==
    s.header
    \o (IF s.deps.given THEN <<DependsLine(s.deps)>> ELSE <<>>)
    \o PhaseOpening(s.phase)
    \o [i \in DOMAIN s.body |-> RenderBodyLine(s.body[i])]
    \o <<<<"}">>>> \o s.tail

ParseInit ==
    /\ script \in Scripts
    /\ content = Document(script)
    /\ line_i = 1
    /\ package = EmptyPackage
    /\ parsed = NoRet
    /\ ResolveIdle
    /\ SimIdle
    /\ MainIdle

ParseNext ==
    \/ ParseBlank
    \/ ParseKey
    \/ ParseDepends
    \/ ParsePhase
    \/ ParseOther
    \/ ParseEnd

SpecParse == ParseInit /\ [][ParseNext]_vars

(***************************************************************************)
(*                       Properties of the parser                          *)
(***************************************************************************)

IsDownload(c) == c.kind = "Download"
IsDownloadLine(l) == l.k = "download"
ParsedCommands == parsed.package.phases[1].commands

\* C9: a download line written with an explicit size=S parses to a Download
\* command that carries the size S.
C9_ExplicitSizeCarried ==
    (parsed.tag = "Ok" /\ Len(parsed.package.phases) = 1
     /\ \A i \in DOMAIN script.body : script.body[i] \in BodyLines) =>
        LET got == SelectSeq(ParsedCommands, IsDownload)
            meant == SelectSeq(script.body, IsDownloadLine)
        IN  /\ Len(got) = Len(meant)
            /\ \A i \in DOMAIN meant : meant[i].explicit => got[i].size = meant[i].size

\* What a line of the phase is meant to give: the command's variant and its
\* primary value for a valid command line, nothing for any other line.
Meant(l) ==
    CASE l.k = "message" -> <<[kind |-> "Message", value |-> l.text]>>
      [] l.k = "download" -> <<[kind |-> "Download", value |-> l.url]>>
      [] l.k = "cleanup" -> <<[kind |-> "Cleanup"]>>
      [] l.k = "delay" -> <<[kind |-> "Delay"]>>
      [] l.k = "progress" -> <<[kind |-> "Progress"]>>
      [] l.k = "param" ->
            IF l.word = "download" THEN <<[kind |-> "Download", value |-> <<"u">>]>>
            ELSE <<[kind |-> "RunTest", value |-> <<"t">>]>>
      [] OTHER -> <<>>

RECURSIVE MeantCommands(_)
MeantCommands(body) ==
    IF body = <<>> THEN <<>> ELSE Meant(body[1]) \o MeantCommands(Drop(body, 1))

Primary(c) ==
    CASE c.kind = "Download" -> [kind |-> "Download", value |-> c.url]
      [] c.kind = "RunTest" -> [kind |-> "RunTest", value |-> c.name]
      [] c.kind \in {"Delay", "Progress"} -> [kind |-> c.kind]
      [] OTHER -> c

\* The script has one phase, closed by the line after its body, and the word
\* of each of its lines ends at a space or at the end of the line.
OneSpacedPhase ==
    /\ script.tail \in Tails
    /\ \A i \in DOMAIN script.body : script.body[i].k \notin {"tabbed", "close"}

\* C10: in a script with a package name and a well-formed phase line, a
\* line of the phase with an unknown leading word or without an extractable
\* quoted value is dropped: parse
\* still returns the package, the phase holds exactly the valid command lines
\* in their order, and the lines after the phase are still read.
C10_InvalidLinesDropped ==
    (parsed # NoRet /\ script.header \in NamedHeaders /\ script.phase = "quoted"
     /\ OneSpacedPhase) =>
        /\ parsed.tag = "Ok"
        /\ Len(parsed.package.phases) = 1
        /\ [i \in DOMAIN ParsedCommands |-> Primary(ParsedCommands[i])]
               = MeantCommands(script.body)
        /\ script.tail # <<>> => parsed.package.author = <<"z">>

\* C10 witness: message "a", bogus_cmd foo, message "b" has been parsed to
\* [message(a), message(b)].
C10_Witness ==
    /\ parsed.tag = "Ok"
    /\ script.body = <<[k |-> "message", text |-> <<"a">>, indent |-> FALSE],
                       [k |-> "unknown"],
                       [k |-> "message", text |-> <<"b">>, indent |-> FALSE]>>
    /\ ParsedCommands = <<[kind |-> "Message", value |-> <<"a">>],
                          [kind |-> "Message", value |-> <<"b">>]>>


\* The tokens of a `depends:` line as written, those that are not empty.
IsNonEmpty(t) == t # <<>>
WrittenTokens(d) ==
    SelectSeq(IF d.open THEN Front(d.tokens) ELSE d.tokens, IsNonEmpty)

\* The tokens without their surrounding blanks, those that are not blank;
\* the text after a last quote left open counts as a token.
IsNonBlank(t) == Trim(t) # <<>>
TrimmedTokens(d) ==
    LET kept == SelectSeq(d.tokens, IsNonBlank)
    IN  [i \in DOMAIN kept |-> Trim(kept[i])]

C12_NoNameIsAnError ==
    script.header \in UnnamedHeaders => parsed = NoRet \/ parsed.tag = "Err"

\* C12 witness: parse has returned the error of the missing name for a
\* script that declares `package: ""` and is well-formed otherwise.
C12_Witness ==
    /\ parsed = ParseErr("name")
    /\ script.header = <<<<"p", "a", "c", "k", "a", "g", "e", ":", " ", "\"", "\"">>>>
    /\ script.phase = "quoted"

\* C14 as stated: parse fails only for a missing or empty name and for a
\* top-level package:/version:/description:/author: line without a quoted
\* value; a phase line without a quoted name does not make it fail.
C14_Original ==
    parsed.tag = "Err" => script.header \in UnnamedHeaders \cup BadValueHeaders

\* C14: parse fails in three cases and in no other: the name is missing or
\* empty, a top-level package:/version:/description:/author: line has no
\* quoted value, or a phase line has no quoted name.  A script with a name,
\* quoted top-level values and a quoted phase name yields a Package whatever
\* else is malformed in it; a phase line without a quoted name makes parse
\* fail.
C14_ParseFailures ==
    /\ parsed.tag = "Err" =>
          \/ parsed.msg = "name" /\ script.header \in UnnamedHeaders
          \/ parsed.msg = "value" /\ script.header \in UnnamedHeaders \cup BadValueHeaders
          \/ parsed.msg = "phase" /\ script.phase = "unquoted"
    /\ (parsed # NoRet /\ script.header \in NamedHeaders) =>
          IF script.phase = "unquoted" THEN parsed = ParseErr("phase")
          ELSE parsed.tag = "Ok"

\* C14 witness: parse has failed on the phase line `phase x {` of a script
\* with a name.
C14_Witness ==
    /\ parsed = ParseErr("phase")
    /\ script.header \in NamedHeaders
    /\ script.phase = "unquoted"

\* What a delay or progress line is to give: the number written when it is
\* one the type holds, the default otherwise.
NumericCommand(l) ==
    CASE l.k = "delay" ->
            [kind |-> "Delay", ms |-> IF l.arg = "number" THEN l.n ELSE 100]
      [] l.k = "progress" ->
            [kind |-> "Progress",
             pct |-> IF l.arg = "number" /\ l.n <= 255 THEN l.n ELSE 0]
      [] l.k = "message" -> [kind |-> "Message", value |-> l.text]

\* C20: a delay line without an argument or with one that is no number gives
\* Delay(100), a progress line without an argument, with one that is no
\* number or with a number above 255 gives Progress(0); the line is not
\* dropped, the parse does not fail, and the lines around it are kept.
C20_NumericDefaults ==
    (parsed # NoRet /\ script.body \in NumericBodies) =>
        /\ parsed.tag = "Ok"
        /\ Len(parsed.package.phases) = 1
        /\ ParsedCommands = [i \in DOMAIN script.body |-> NumericCommand(script.body[i])]

\* C20 witness: `progress 300` between two messages has been parsed to
\* Progress(0), with both messages around it.
C20_Witness ==
    /\ parsed.tag = "Ok"
    /\ script.body = <<MessageA, [k |-> "progress", arg |-> "number", n |-> 300], MessageB>>
    /\ ParsedCommands = <<[kind |-> "Message", value |-> <<"a">>],
                          [kind |-> "Progress", pct |-> 0],
                          [kind |-> "Message", value |-> <<"b">>]>>

(***************************************************************************)
(*                                 main                                    *)
(***************************************************************************)

\* Bounds of main's inputs.
NDirs == 2       \* directories the script files lie in
MainEdges == 2   \* dependency references in all files together

Dirs == 1 .. NDirs
\* A file that is read and does not parse.
BadFile == NFiles + 1

\* The programs of the script files.
ProgramA ==
    <<<<[kind |-> "Message"], [kind |-> "Progress", pct |-> 50]>>,
      <<[kind |-> "UpdateSystem"]>>>>
ProgramB ==
    <<<<>>, <<[kind |-> "Download", size |-> MaxSize], [kind |-> "DetectCpu"]>>>>
ProgramC ==
    <<<<[kind |-> "Progress", pct |-> 104], [kind |-> "Message"]>>>>
ProgramList == <<ProgramA, ProgramB, ProgramC>>
ProgramTables ==
    {[f \in Files |-> ProgramList[((f + k) % Len(ProgramList)) + 1]] :
        k \in 1 .. Len(ProgramList)}

\* The files main can be given: every file has its own name, and depends on
\* nothing or on one other file, by a relative or by an absolute path.
Target(f) == IF f = 1 THEN 2 ELSE 1
EdgeCount(dp) ==
    LET RECURSIVE Sum(_)
        Sum(n) == IF n = 0 THEN 0 ELSE Len(dp[n]) + Sum(n - 1)
    IN  Sum(NFiles)
DependsChoices(f) == {<<>>, <<Target(f)>>, <<0 - Target(f)>>}
MainSystems ==
    {[f \in Files |-> Package(f, dp[f], f)] :
        dp \in {d \in [Files -> UNION {DependsChoices(f) : f \in Files}] :
                   /\ \A f \in Files : d[f] \in DependsChoices(f)
                   /\ EdgeCount(d) <= MainEdges}}

\* Where the files lie: file 1 in directory 1, the unparsable file in the
\* last directory.
Places ==
    {pl \in [Files \cup {BadFile} -> Dirs] : pl[1] = 1 /\ pl[BadFile] = NDirs}

\* `--file`: files 1 and 2, the unparsable file and the path of no file.
MainRoots == SeqsUpTo({1, 2, BadFile, NoFile}, MaxRoots) \ {<<>>}

\* The flags: none, --quick, --skip-deps, --show-deps.
ArgSets ==
    {a \in [quick : BOOLEAN, verbose : {FALSE}, skip_deps : BOOLEAN,
            show_deps : BOOLEAN] :
        Cardinality({k \in {"quick", "skip_deps", "show_deps"} : a[k]}) <= 1}

\* main, `for file_path in &files`: one root is read and parsed.  A root that
\* is not read ends the process; base_path is set from every root that is
\* read; a root that does not parse ends the process.
LoadRoot_BadRootSkipped ==
    /\ pc = "load"
    /\ file_i <= Len(files)
    /\ LET file_path == files[file_i] IN
       IF file_path \notin DOMAIN place
       THEN /\ pc' = "exit"
            /\ UNCHANGED <<base_path, packages, file_i>>
       ELSE /\ base_path' = place[file_path]
            /\ packages' = IF file_path \in DOMAIN fs
                           THEN Append(packages, fs[file_path]) ELSE packages
            /\ file_i' = file_i + 1
            /\ pc' = pc
    /\ UNCHANGED <<main_args, files, place, programs, install_order, pkg_i,
                   phase_i, cmd_i, installed_count, log, shown>>
    /\ UNCHANGED <<fs, root_i, stack, order, visited, in_stack, ret, calls>>
    /\ UNCHANGED <<simVars, parseVars>>

LoadRoot ==
    /\ pc = "load"
    /\ file_i <= Len(files)
    /\ LET file_path == files[file_i] IN
       IF file_path \notin DOMAIN place
       THEN /\ pc' = "exit"
            /\ UNCHANGED <<base_path, packages, file_i>>
       ELSE /\ base_path' = place[file_path]
            /\ IF file_path \in DOMAIN fs
               THEN /\ packages' = Append(packages, fs[file_path])
                    /\ file_i' = file_i + 1
                    /\ pc' = pc
               ELSE /\ pc' = "exit"
                    /\ UNCHANGED <<packages, file_i>>
    /\ UNCHANGED <<main_args, files, place, programs, install_order, pkg_i,
                   phase_i, cmd_i, installed_count, log, shown>>
    /\ UNCHANGED <<fs, root_i, stack, order, visited, in_stack, ret, calls>>
    /\ UNCHANGED <<simVars, parseVars>>

LoadDone_SkipIgnored ==
    /\ pc = "load"
    /\ file_i > Len(files)
    /\ IF main_args.show_deps
       THEN pc' = "tree" /\ UNCHANGED install_order
       ELSE pc' = "resolve" /\ UNCHANGED install_order
    /\ UNCHANGED <<main_args, files, file_i, base_path, place, programs, pkg_i,
                   phase_i, cmd_i, installed_count, log, shown>>
    /\ UNCHANGED <<resolveVars, simVars, parseVars>>

\* main, after the loop: DependencyManager::new(base_path); --show-deps
\* goes to the tree, --skip-deps takes the roots as the order, and
\* get_install_order is called otherwise.
LoadDone ==
    /\ pc = "load"
    /\ file_i > Len(files)
    /\ IF main_args.show_deps
       THEN pc' = "tree" /\ UNCHANGED install_order
       ELSE IF main_args.skip_deps
       THEN pc' = "start" /\ install_order' = packages
       ELSE pc' = "resolve" /\ UNCHANGED install_order
    /\ UNCHANGED <<main_args, files, file_i, base_path, place, programs, pkg_i,
                   phase_i, cmd_i, installed_count, log, shown>>
    /\ UNCHANGED <<resolveVars, simVars, parseVars>>

\* A line show_dependency_tree prints: the line of a package, with the
\* `(уже показан)` line under it or not, or the line of a dependency that
\* does not load.
PackageLine(pkg, indent, again) ==
    [kind |-> "package", name |-> pkg.name, file |-> pkg.file_path,
     indent |-> indent, again |-> again]
MissingLine(dep_path, indent) ==
    [kind |-> "missing", path |-> dep_path, indent |-> indent]

TreeCall_ByFile(pkg, below, indent) ==
    IF pkg.file_path \in visited
    THEN /\ shown' = Append(shown, PackageLine(pkg, indent, TRUE))
         /\ stack' = below
         /\ UNCHANGED visited
    ELSE /\ shown' = Append(shown, PackageLine(pkg, indent, FALSE))
         /\ visited' = visited \cup {pkg.file_path}
         /\ stack' = Append(below, [pkg |-> pkg, di |-> 1])

\* A call show_dependency_tree(pkg, dep_manager, indent, visited) made with
\* the recursion at `below`: the line of the package is printed; a name that
\* is in `visited` is printed as already shown and the call returns; any
\* other name enters `visited` and the loop over pkg.depends starts.  The
\* recursion is kept in `stack` and main's local `visited` in `visited`:
\* get_install_order is never called in a run that prints the tree.
TreeCall(pkg, below, indent) ==
    IF pkg.name \in visited
    THEN /\ shown' = Append(shown, PackageLine(pkg, indent, TRUE))
         /\ stack' = below
         /\ UNCHANGED visited
    ELSE /\ shown' = Append(shown, PackageLine(pkg, indent, FALSE))
         /\ visited' = visited \cup {pkg.name}
         /\ stack' = Append(below, [pkg |-> pkg, di |-> 1])

\* main, --show-deps: `for pkg in &packages { show_dependency_tree(pkg,
\* &dep_manager, 0, &mut visited); }`
TreeRoot ==
    /\ pc = "tree"
    /\ stack = <<>>
    /\ root_i <= Len(packages)
    /\ root_i' = root_i + 1
    /\ TreeCall(packages[root_i], <<>>, 0)
    /\ UNCHANGED <<fs, packages, order, in_stack, ret, calls>>
    /\ UNCHANGED <<pc, main_args, files, file_i, base_path, place, programs,
                   install_order, pkg_i, phase_i, cmd_i, installed_count, log>>
    /\ UNCHANGED <<simVars, parseVars>>

\* show_dependency_tree: the next `dep_path` of the top frame loads; its
\* line is printed and the tree of the loaded package is shown, two levels
\* further in.
TreeDep ==
    /\ pc = "tree"
    /\ stack # <<>>
    /\ LET top == Last(stack) IN
       /\ top.di <= Len(top.pkg.depends)
       /\ load_package(resolve_path(top.pkg.depends[top.di])).ok
       /\ TreeCall(load_package(resolve_path(top.pkg.depends[top.di])).pkg,
                   Append(Front(stack), [top EXCEPT !.di = @ + 1]),
                   2 * Len(stack))
    /\ UNCHANGED <<fs, packages, root_i, order, in_stack, ret, calls>>
    /\ UNCHANGED <<pc, main_args, files, file_i, base_path, place, programs,
                   install_order, pkg_i, phase_i, cmd_i, installed_count, log>>
    /\ UNCHANGED <<simVars, parseVars>>

\* show_dependency_tree: the next `dep_path` of the top frame does not load;
\* it is printed as not found and the loop goes on.
TreeDepMissing ==
    /\ pc = "tree"
    /\ stack # <<>>
    /\ LET top == Last(stack) IN
       /\ top.di <= Len(top.pkg.depends)
       /\ ~load_package(resolve_path(top.pkg.depends[top.di])).ok
       /\ shown' = Append(shown, MissingLine(top.pkg.depends[top.di],
                                             2 * (Len(stack) - 1)))
       /\ stack' = Append(Front(stack), [top EXCEPT !.di = @ + 1])
    /\ UNCHANGED <<fs, packages, root_i, order, visited, in_stack, ret, calls>>
    /\ UNCHANGED <<pc, main_args, files, file_i, base_path, place, programs,
                   install_order, pkg_i, phase_i, cmd_i, installed_count, log>>
    /\ UNCHANGED <<simVars, parseVars>>

\* show_dependency_tree: the loop over pkg.depends is over.
TreeReturn ==
    /\ pc = "tree"
    /\ stack # <<>>
    /\ Last(stack).di > Len(Last(stack).pkg.depends)
    /\ stack' = Front(stack)
    /\ UNCHANGED <<fs, packages, root_i, order, visited, in_stack, ret, calls>>
    /\ UNCHANGED mainVars
    /\ UNCHANGED <<simVars, parseVars>>

\* main, --show-deps: the loop over the roots is over, `return`.
TreeDone ==
    /\ pc = "tree"
    /\ stack = <<>>
    /\ root_i > Len(packages)
    /\ pc' = "done"
    /\ UNCHANGED <<main_args, files, file_i, base_path, place, programs,
                   install_order, pkg_i, phase_i, cmd_i, installed_count, log, shown>>
    /\ UNCHANGED <<resolveVars, simVars, parseVars>>

\* main, `match dm.get_install_order(&packages)`: the order, or the end of
\* the process.
ResolveDone ==
    /\ pc = "resolve"
    /\ ret # NoRet
    /\ IF ret.tag = "Ok"
       THEN pc' = "start" /\ install_order' = ret.order
       ELSE pc' = "exit" /\ UNCHANGED install_order
    /\ UNCHANGED <<main_args, files, file_i, base_path, place, programs, pkg_i,
                   phase_i, cmd_i, installed_count, log, shown>>
    /\ UNCHANGED <<resolveVars, simVars, parseVars>>

\* main: `let mut simulator = Simulator::new(args.quick, args.verbose)`, once
\* for all the programs, and `installed_count = 0`.
SimulatorNew ==
    /\ pc = "start"
    /\ quick_mode' = main_args.quick
    /\ verbose' = main_args.verbose
    /\ progress' = 0
    /\ installed_count' = 0
    /\ pc' = "run"
    /\ UNCHANGED <<main_args, files, file_i, base_path, place, programs,
                   install_order, pkg_i, phase_i, cmd_i, log, shown>>
    /\ UNCHANGED <<slept, panicked, ncmds, cur, effect, dl, facts, effect_twin>>
    /\ UNCHANGED <<resolveVars, parseVars>>

\* run_phase: the loop over the commands is over, Ok(()).
PhaseReturn ==
    /\ InRun
    /\ Ready
    /\ phase_i <= Len(Phases)
    /\ cmd_i > Len(Phases[phase_i])
    /\ phase_i' = phase_i + 1
    /\ cmd_i' = 1
    /\ UNCHANGED <<pc, main_args, files, file_i, base_path, place, programs,
                   install_order, pkg_i, installed_count, log, shown>>
    /\ UNCHANGED <<resolveVars, simVars, parseVars>>

\* Simulator::run: the loop over the phases is over, Ok(()); main counts the
\* program and takes the next one, with the same Simulator.
RunReturn ==
    /\ InRun
    /\ Ready
    /\ phase_i > Len(Phases)
    /\ installed_count' = installed_count + 1
    /\ pkg_i' = pkg_i + 1
    /\ phase_i' = 1
    /\ cmd_i' = 1
    /\ UNCHANGED <<pc, main_args, files, file_i, base_path, place, programs,
                   install_order, log, shown>>
    /\ UNCHANGED <<resolveVars, simVars, parseVars>>

\* main: the loop over install_order is over.
MainReturn ==
    /\ pc = "run"
    /\ pkg_i > Len(install_order)
    /\ pc' = "done"
    /\ UNCHANGED <<main_args, files, file_i, base_path, place, programs,
                   install_order, pkg_i, phase_i, cmd_i, installed_count, log, shown>>
    /\ UNCHANGED <<resolveVars, simVars, parseVars>>

\* The state main starts in: the files on disk and the command line.
MainInit ==
    /\ pc = "load"
    /\ main_args \in ArgSets
    /\ files \in MainRoots
    /\ file_i = 1
    /\ base_path = 1
    /\ place \in Places
    /\ programs \in ProgramTables
    /\ install_order = <<>>
    /\ pkg_i = 1
    /\ phase_i = 1
    /\ cmd_i = 1
    /\ installed_count = 0
    /\ log = <<>>
    /\ shown = <<>>
    /\ fs \in MainSystems
    /\ packages = <<>>
    /\ root_i = 1
    /\ stack = <<>>
    /\ order = <<>>
    /\ visited = {}
    /\ in_stack = {}
    /\ ret = NoRet
    /\ calls = <<>>
    /\ SimIdle
    /\ ParseIdle

MainNext ==
    \/ LoadRoot
    \/ LoadDone
    \/ TreeRoot
    \/ TreeDep
    \/ TreeDepMissing
    \/ TreeReturn
    \/ TreeDone
    \/ VisitRoot
    \/ DepVisit
    \/ DepSkip
    \/ VisitReturn
    \/ OrderReturn
    \/ ResolveDone
    \/ SimulatorNew
    \/ ExecuteProgress
    \/ ExecuteDownload
    \/ DownloadChunk
    \/ DownloadEnd
    \/ ExecuteOther
    \/ PhaseReturn
    \/ RunReturn
    \/ MainReturn

SpecMain == MainInit /\ [][MainNext]_vars

\* The program of every file when main runs over the files of the resolver:
\* a download of one chunk and a progress in one phase, a message in the next.
TreeProgram ==
    <<<<[kind |-> "Download", size |-> 10], [kind |-> "Progress", pct |-> 50]>>,
      <<[kind |-> "Message"]>>>>

\* main over the files of the resolver: files that share names, reference
\* one another in cycles and reference paths that do not load, all in one
\* directory.  The scheduler runs main for as long as it has a step to take.
TreeInit ==
    /\ pc = "load"
    /\ main_args \in ArgSets
    /\ files \in RootLists
    /\ file_i = 1
    /\ base_path = 1
    /\ place = [f \in Files \cup {BadFile} |-> IF f = BadFile THEN NDirs ELSE 1]
    /\ programs = [f \in Files |-> TreeProgram]
    /\ install_order = <<>>
    /\ pkg_i = 1
    /\ phase_i = 1
    /\ cmd_i = 1
    /\ installed_count = 0
    /\ log = <<>>
    /\ shown = <<>>
    /\ fs \in FileSystems
    /\ packages = <<>>
    /\ root_i = 1
    /\ stack = <<>>
    /\ order = <<>>
    /\ visited = {}
    /\ in_stack = {}
    /\ ret = NoRet
    /\ calls = <<>>
    /\ SimIdle
    /\ ParseIdle

SpecTree == TreeInit /\ [][MainNext]_vars /\ WF_vars(MainNext)

(***************************************************************************)
(*                          Properties of main                             *)
(***************************************************************************)

\* main has loaded every root.
Loaded == pc \in {"tree", "resolve", "start", "run", "done"}

\* C13: the base directory of the resolution is the directory of the first
\* root file, whatever the directories of the other roots are.
C13_BaseIsFirstRoot == Loaded => base_path = place[files[1]]

\* Where the effects of the log were produced, and by which command.
Where(l) ==
    [i \in DOMAIN l |-> [pkg |-> l[i].pkg, file |-> l[i].file,
                         phase |-> l[i].phase, cmd |-> l[i].cmd,
                         kind |-> l[i].effect.kind]]

\* The commands of the programs of ord from program p, phase ph and command c
\* on: program after program, phase after phase, command after command.
RECURSIVE Positions(_, _, _, _)
Positions(ord, p, ph, c) ==
    IF p > Len(ord) THEN <<>>
    ELSE LET phases == programs[ord[p].file_path] IN
         IF ph > Len(phases) THEN Positions(ord, p + 1, 1, 1)
         ELSE IF c > Len(phases[ph]) THEN Positions(ord, p, ph + 1, 1)
         ELSE <<[pkg |-> p, file |-> ord[p].file_path, phase |-> ph, cmd |-> c,
                 kind |-> phases[ph][c].kind]>>
              \o Positions(ord, p, ph, c + 1)

\* C15: Simulator::run executes the phases in order and in each phase every
\* command once and in order, with one effect for each command, and returns
\* for every program: no run stops partway, and the effects produced so far
\* are those of the commands up to the one the run stands at.
C15_EveryCommandOnce ==
    /\ ~panicked
    /\ IsPrefix(Where(log), Positions(install_order, 1, 1, 1))

\* C17: at the start of each program of the run order the last-progress
\* value of the interpreter is the initial one, whatever programs were
\* interpreted before.
C17_ProgramsIndependent ==
    (InRun /\ ~panicked /\ phase_i = 1 /\ cmd_i = 1) => progress = 0

\* Every root file was read and parsed.
AllRootsLoaded == \A i \in DOMAIN files : files[i] \in DOMAIN fs

\* C18 as stated: an effect is produced only when every root was read and
\* parsed and the resolver returned an order, and the programs are
\* interpreted in that order.
C18_Original ==
    /\ pc = "exit" => log = <<>>
    /\ log # <<>> =>
          /\ AllRootsLoaded
          /\ ret.tag = "Ok"
          /\ IsPrefix(Where(log), Positions(ret.order, 1, 1, 1))

\* The order main runs the programs in: the roots as given under
\* --skip-deps, what get_install_order returned otherwise.
RunOrder == IF main_args.skip_deps THEN packages ELSE ret.order

\* C18: an effect is produced only when every root was read and parsed and,
\* unless --skip-deps is given, the resolver returned an order; a process
\* ended by a root that is not read or not parsed or by a cycle has produced
\* no effect; the programs are interpreted one after another in the resolved
\* order, and in the order of the roots under --skip-deps.
C18_EffectsAfterResolution ==
    /\ pc = "exit" => log = <<>>
    /\ log # <<>> =>
          /\ AllRootsLoaded
          /\ main_args.skip_deps \/ ret.tag = "Ok"
          /\ IsPrefix(Where(log), Positions(RunOrder, 1, 1, 1))

\* C18 witness: two roots were given, the resolver has put the second before
\* the first, and both programs have been interpreted, the second root's
\* first.
C18_Witness ==
    /\ pc = "done"
    /\ ret.tag = "Ok"
    /\ Len(packages) = 2
    /\ Len(ret.order) = 2
    /\ ret.order[1] = packages[2]
    /\ log # <<>>
    /\ log[1].file = packages[2].file_path
    /\ Last(log).file = packages[1].file_path

\* The files the `depends:` list of file f names that resolve_path and
\* load_package find.
LoadedDeps(f) ==
    {resolve_path(fs[f].depends[k]) : k \in DOMAIN fs[f].depends} \cap DOMAIN fs

RECURSIVE LoadedClosure(_)
LoadedClosure(S) ==
    LET T == S \cup UNION {LoadedDeps(f) : f \in S}
    IN  IF T = S THEN S ELSE LoadedClosure(T)

\* C28: when get_install_order succeeds the name of every root is in the
\* output and every entry of the output is a root or a program loaded from a
\* dependency reference reachable from a root; under --skip-deps the run
\* order is the list of the roots as given and no dependency file is loaded.
C28_OrderCoversRoots ==
    /\ ret.tag = "Ok" =>
          /\ \A i \in DOMAIN packages :
                \E k \in DOMAIN ret.order : ret.order[k].name = packages[i].name
          /\ \A k \in DOMAIN ret.order :
                ret.order[k].file_path \in LoadedClosure(RootFiles)
    /\ (main_args.skip_deps /\ pc \in {"start", "run", "done"}) =>
          /\ install_order = packages
          /\ calls = <<>>
          /\ ret = NoRet

\* C28 witness: an order was returned that holds a program that is no root,
\* loaded from a reference of a root.
C28_Witness ==
    /\ ret.tag = "Ok"
    /\ Len(packages) = 2
    /\ \E k \in DOMAIN ret.order : ret.order[k].file_path \notin RootFiles

\* The lines of a phase that carry a numeric named parameter, and the
\* commands that hold one.
HasNumericParam(l) == l.k \in {"download", "param"}
HoldsNumber(c) == c.kind \in {"Download", "RunTest"}
NumberOf(c) == IF c.kind = "Download" THEN c.size ELSE c.duration

\* The fixed default of the parameter of a line.
DefaultOf(l) == IF l.k = "download" \/ l.word = "download" THEN 1024 ELSE 1000

\* What the parameter of a line is written to give: the digits written after
\* the `=`, the default when the parameter is not written or no digit follows
\* the `=`.
WrittenNumber(l) ==
    IF l.k = "download" THEN (IF l.explicit THEN l.size ELSE DefaultOf(l))
    ELSE IF l.form \in {"digits", "suffixed"} THEN l.n
    ELSE DefaultOf(l)

\* C21: a numeric named parameter key=<digits><rest> gives the value of the
\* digits up to the first character that is no digit, and the fixed default
\* of the command (1024 for the size of download, 1000 for the duration of
\* run_test) when the key is not written or no digit follows the `=`.
C21_NumericParameter ==
    (parsed.tag = "Ok" /\ Len(parsed.package.phases) = 1
     /\ \A i \in DOMAIN script.body : script.body[i] \in BodyLines \cup ParamLines) =>
        LET got == SelectSeq(ParsedCommands, HoldsNumber)
            meant == SelectSeq(script.body, HasNumericParam)
        IN  /\ Len(got) = Len(meant)
            /\ \A i \in DOMAIN meant : NumberOf(got[i]) = WrittenNumber(meant[i])

\* What a line with a tab after its word is written to give.
TabbedCommand(l) ==
    CASE l.word = "message" -> [kind |-> "Message", value |-> <<"a">>]
      [] l.word = "delay" -> [kind |-> "Delay", ms |-> 250]
      [] l.word = "download" -> [kind |-> "Download", url |-> <<"u">>, size |-> 5]

\* The body of the script is a tabbed line, alone or between two messages.
TabbedBody ==
    \E i \in DOMAIN script.body : script.body[i].k = "tabbed"

\* C22: the word of a command line is its first whitespace-delimited token:
\* a valid command whose word is followed by a tab is recognized and enters
\* the phase, as it does when the word is followed by a space.
C22_WordEndsAtWhitespace ==
    (parsed # NoRet /\ TabbedBody) =>
        /\ parsed.tag = "Ok"
        /\ Len(parsed.package.phases) = 1
        /\ ParsedCommands =
              [i \in DOMAIN script.body |->
                  IF script.body[i].k = "tabbed" THEN TabbedCommand(script.body[i])
                  ELSE [kind |-> "Message", value |-> script.body[i].text]]

\* The lines of a phase body up to its first line that starts with `}`.
RECURSIVE UntilClose(_)
UntilClose(body) ==
    IF body = <<>> \/ body[1] = CloseLine THEN <<>>
    ELSE <<body[1]>> \o UntilClose(Drop(body, 1))

\* The command a line of BraceBodies is written to give.
BraceCommand(l) ==
    IF l.k = "message" THEN [kind |-> "Message", value |-> l.text]
    ELSE [kind |-> "Cleanup"]

\* The script is a phase "x" with its brace on the phase line or on a later
\* line, followed by nothing or by more top-level lines.
BraceScript ==
    /\ script.header = PlainHeader
    /\ ~script.deps.given
    /\ script.phase \in BracePlaces
    /\ script.body \in BraceBodies
    /\ script.tail \in {<<>>, MoreTail}

\* The package a script of that form is written to give, whatever the place
\* of its brace.
BracePackage ==
    LET first == UntilClose(script.body)
        more == script.tail = MoreTail
    IN  [name |-> <<"p">>,
         version |-> IF more THEN <<"2">> ELSE <<>>,
         description |-> <<>>,
         author |-> IF more THEN <<"z">> ELSE <<>>,
         depends |-> <<>>,
         phases |->
            <<[name |-> <<"x">>,
               commands |-> [i \in DOMAIN first |-> BraceCommand(first[i])]]>>
            \o (IF more
                THEN <<[name |-> <<"y">>,
                        commands |-> <<[kind |-> "Message", value |-> <<"b">>]>>]>>
                ELSE <<>>)]

\* C23: a phase parses to the same name and the same commands whether its
\* opening brace is on the phase line or on a later line; the phase ends at
\* the first line that is or starts with `}`, and the lines after it are
\* parsed as top-level lines again: the keys and the phases among them are
\* taken, the phases in the order they are declared.
C23_BracePlaceAndPhaseEnd ==
    (parsed # NoRet /\ BraceScript) => parsed = ParseOk(BracePackage)

\* C23 witness: a phase with its brace three lines below the phase line and
\* a line `} # end` between two messages, followed by a key, a second phase
\* and a key, has been parsed to two phases.
C23_Witness ==
    /\ parsed.tag = "Ok"
    /\ script.phase = "later"
    /\ script.body = <<MessageA, CloseLine, MessageB>>
    /\ script.tail = MoreTail
    /\ Len(parsed.package.phases) = 2
    /\ parsed.package.phases[1].commands = <<[kind |-> "Message", value |-> <<"a">>]>>
    /\ parsed.package.author = <<"z">>

\* The lines of packages among the printed lines, and the ones whose
\* dependencies were gone through.
IsPackageLine(k) == shown[k].kind = "package"
Expanded(k) == IsPackageLine(k) /\ ~shown[k].again

\* C30: show_dependency_tree comes to an end on every set of files, cyclic
\* references included: the dependencies of each program name are gone
\* through at most once, a name met again is printed as already shown and
\* nothing is printed below it, the recursion is never deeper than the
\* number of names, and a run with --show-deps ends without a command of any
\* program being interpreted.
C30_TreeTerminates ==
    /\ main_args.show_deps ~> pc \in {"done", "exit"}
    /\ [](\A k, l \in DOMAIN shown :
            (Expanded(k) /\ Expanded(l) /\ shown[k].name = shown[l].name) => k = l)
    /\ [](\A k \in DOMAIN shown :
            (IsPackageLine(k) /\ shown[k].again) =>
               /\ \E j \in 1 .. k - 1 : Expanded(j) /\ shown[j].name = shown[k].name
               /\ k < Len(shown) => shown[k + 1].indent <= shown[k].indent)
    /\ [](pc = "tree" => Len(stack) <= Cardinality({fs[f].name : f \in DOMAIN fs}))
    /\ [](main_args.show_deps =>
            /\ pc \in {"load", "tree", "done", "exit"}
            /\ log = <<>>
            /\ ncmds = 0
            /\ effect = NoEffect
            /\ ret = NoRet)

\* C30 witness: the tree of files that reference one another in a cycle has
\* been printed to its end: a name was met again below its own line, and was
\* printed as already shown.
C30_Witness ==
    /\ main_args.show_deps
    /\ pc = "done"
    /\ \E j, k \in DOMAIN shown :
          /\ j < k
          /\ Expanded(j)
          /\ IsPackageLine(k) /\ shown[k].again
          /\ shown[k].name = shown[j].name
          /\ \A i \in j + 1 .. k : shown[i].indent > shown[j].indent

====
